---- MODULE Spec2Model ----
(***************************************************************************)
(* Line-us Inkscape extension (src/line-us/lus_parser_sender.py): the      *)
(* geometry-to-motion pipeline of class LUS and its device channel.        *)
(*                                                                         *)
(* The methods of LUS are operators from an object state to an object      *)
(* state.  The object state is a record holding the fields of `self`, the  *)
(* socket and the output file; the field `ctl` says whether control        *)
(* is running, an exception is propagating ("raised") or the call never    *)
(* returns ("hung"); the field `net` holds what the device and the link    *)
(* do at the next writes of the step.                                      *)
(***************************************************************************)
EXTENDS Integers, Sequences, FiniteSets, TLC

VARIABLES
    document,   \* the SVG tree, as the token list of its document-order walk
    options,    \* self.options: tab, layernumber, manualType, WalkDistance
    pc,         \* where effect() stands
    nodeIx,     \* index of the next node of recursively_traverse_svg
    spIx,       \* plot_path: index of the subpath (for sp in p)
    ptIx,       \* plot_path: nIndex, the index of the point in the subpath
    encl,       \* the group nodes the traversal is inside of, outermost first
    refs,       \* the <use> recursions the traversal is in, outermost first
    lus,        \* the fields of the LUS object
    sock,       \* self._sock and the connection behind it
    fil,        \* self.fil, the G-code output file
    calls,      \* the methods the last step called, in call order
    budget,     \* device/link events the environment may still choose
    rl,         \* get_resp: the state of its read loop (ReadSpec)
    sd,         \* subdivide_cubic_path: the state of its loop (FlatSpec)
    fp          \* plot_path and plot_line on floats (TotalsSpec)

vars == <<document, options, pc, nodeIx, spIx, ptIx, encl, refs, lus, sock, fil,
          calls, budget, rl, sd, fp>>

----------------------------------------------------------------------------
(* Bounds of the model *)

Scale == 2        \* a coordinate v stands for the real number v / Scale
MaxFaults == 2    \* device/link events chosen by the environment in a job
MaxLabel == 3     \* longest layer label
MaxItems == 2     \* top-level items of a document
MaxMarkers == 2   \* <lus> marker elements of a document
MaxDepth == 2     \* nested <use> recursions the interpreter's stack has room for

(* Program constants *)

N_PAGE_HEIGHT == 2000
N_PAGE_WIDTH == 2000
N_WALK_DEFAULT == 10
N_DEFAULT_LAYER == 1
ALL_LAYERS_MARK == 12345
POLL_LIMIT == 1000
POLL_TIMEOUT == 990

\* Optional values: None is the empty tuple, a value v is <<v>>.
None == <<>>
Some(v) == <<v>>
Val(o) == o[1]

----------------------------------------------------------------------------
(* Small helpers *)

Abs(v) == IF v < 0 THEN -v ELSE v

\* "%d" % v for a float v: the integer part, truncated towards zero.
FmtD(v) == IF v >= 0 THEN v \div Scale ELSE -((-v) \div Scale)

\* int(s) for a decimal string read from the document: a whole number.
IntOf(n) == n * Scale

Last(q) == q[Len(q)]

\* The record of a call: the method and a tuple of strings saying what it did.
Log(s, op, arg) == [s EXCEPT !.calls = Append(@, [op |-> op, arg |-> arg])]

\* an exception starts to propagate; `why` names the call that raised it
Raise(s, why) == [s EXCEPT !.ctl = "raised", !.exc = why]

\* Python runs the rest of a body only while control is still in it.
Running(s) == s.ctl = "run"

----------------------------------------------------------------------------
(* The device channel *)

\* What is read from the socket is a sequence of symbols: NUL is the null
\* byte, every other symbol is a word, a run of bytes other than null and
\* space (words are separated by single spaces).
NUL == "NUL"
TERMINATOR == "\\r\\n\\0"

\* The first character of a word.
FirstChar(w) ==
    CASE w = "ok"    -> "o"
      [] w = "error" -> "e"
      [] w = "hello" -> "h"
      [] w = "VERSION:1" -> "V"
      [] w = "SERIAL:2"  -> "S"
      [] OTHER       -> "j"

\* What the device and the link may do when a frame is written.
Events == {"ack", "nak", "empty", "silent", "close", "reset", "sendfail"}

Reply(ev) ==
    CASE ev = "ack"   -> <<"ok", NUL>>
      [] ev = "nak"   -> <<"error", NUL>>
      [] ev = "empty" -> <<NUL, "ok", NUL>>
      [] OTHER        -> <<>>

\* The event of the next write: the environment's choice, an ack by default.
NextEv(s) == IF s.net = <<>> THEN "ack" ELSE Head(s.net)

PopEv(s) == [s EXCEPT !.net = IF @ = <<>> THEN <<>> ELSE Tail(@)]

\* The connection after the event: the peer may close it or reset it.
LinkAfter(ev) ==
    CASE ev = "close" -> "closed"
      [] ev = "reset" -> "reset"
      [] OTHER        -> "up"

\* self._sock.sendall(frame) on the connected socket.
sendall(s, frame) ==
    LET ev == NextEv(s)
        t  == PopEv(s)
    IN  IF s.link = "reset" \/ ev = "sendfail"
        THEN Raise(Log([t EXCEPT !.link = "reset"], "sendall", frame), "sendall")
        ELSE Log([t EXCEPT !.wire = Append(@, frame),
                           !.rx   = IF s.link = "up" THEN @ \o Reply(ev) ELSE @,
                           !.link = IF s.link = "up" THEN LinkAfter(ev) ELSE @],
                 "sendall", frame)

\* self.fil.write(text)
write(s, text) ==
    LET ev == NextEv(s)
        t  == PopEv(s)
    IN  IF ev = "sendfail" \/ s.fil_state # "open"
        THEN Raise(t, "write")
        ELSE [t EXCEPT !.lines = Append(@, text)]

\* send_cmd, its second half: if self.GF: self.fil.write(cmd)
SendToFile(s, cmd) == IF Running(s) /\ s.GF THEN write(s, cmd) ELSE s

send_cmd(s, cmd) ==
    SendToFile(IF s.LU /\ s.connected = "yes"
               THEN sendall(s, Append(cmd, TERMINATOR))
               ELSE s,
               cmd)

----------------------------------------------------------------------------
(* get_resp: the read loop *)

RespStart(s) == [tim |-> 0, lin |-> <<>>, rx |-> s.rx, link |-> s.link,
                 at |-> "test"]

\* while tim < 1000:
RespTest(l) == [l EXCEPT !.at = IF l.tim < POLL_LIMIT THEN "recv" ELSE "exit"]

\* char = self._sock.recv(1) and the branch on it.  A blocking socket with
\* nothing to read waits ("blocked"); a peer that closed gives b''.
RespRecv(l) ==
    IF l.rx # <<>>
    THEN IF Head(l.rx) # NUL
         THEN [l EXCEPT !.lin = Append(@, Head(l.rx)), !.rx = Tail(@),
                        !.tim = 0, !.at = "tick"]
         ELSE [l EXCEPT !.rx = Tail(@), !.at = "exit"]
    ELSE CASE l.link = "closed" -> [l EXCEPT !.tim = 0, !.at = "tick"]
           [] l.link = "reset"  -> [l EXCEPT !.at = "raised"]
           [] OTHER             -> [l EXCEPT !.at = "blocked"]

\* tim = tim + 1; time.sleep(0.01)
RespTick(l) == [l EXCEPT !.tim = @ + 1, !.at = "test"]

\* if tim > 990: lin = b'Time_out'; return lin.decode('utf-8')
RespResult(l) == Some(IF l.tim > POLL_TIMEOUT THEN <<"Time_out">> ELSE l.lin)

\* One pass of the loop body, from the test back to the test.
RespStep(l) ==
    CASE l.at = "test" -> RespTest(l)
      [] l.at = "recv" -> RespRecv(l)
      [] l.at = "tick" -> RespTick(l)
      [] OTHER         -> l

RespIter(l) == RespStep(RespStep(RespStep(l)))

\* The loop run to its end.  A pass that leaves the loop state as it found
\* it repeats for ever: the call does not return.
RECURSIVE RespLoop(_)
RespNext(l, n) ==
    IF n.at # "test" THEN n
    ELSE IF n = l THEN [n EXCEPT !.at = "spin"]
    ELSE RespLoop(n)

RespLoop(l) == RespNext(l, RespIter(l))

\* get_resp() returns: the pair <<object state, returned value>>.
RespReturn(s, l) ==
    CASE l.at = "exit"   -> <<Log([s EXCEPT !.rx = l.rx], "get_resp", Val(RespResult(l))),
                              RespResult(l)>>
      [] l.at = "raised" -> <<Raise([s EXCEPT !.rx = l.rx], "recv"), None>>
      [] OTHER           -> <<[s EXCEPT !.rx = l.rx, !.ctl = "hung"], None>>

get_resp(s) ==
    IF s.connected # "yes" THEN <<s, None>>
    ELSE RespReturn(s, RespLoop(RespStart(s)))

----------------------------------------------------------------------------
(* do_command *)

\* while response == '': response = self.get_resp()
RECURSIVE AwaitResp(_)
AwaitNext(r) ==
    IF Running(r[1]) /\ r[2] = Some(<<>>) THEN AwaitResp(r[1]) ELSE r

AwaitResp(s) == AwaitNext(get_resp(s))

\* response[0] != 'o', for a response that is a non-empty string
Nak(text) == FirstChar(text[1]) # "o"

\* except Exception as err: pass
Caught(s) == IF s.ctl = "raised" THEN [s EXCEPT !.ctl = "run", !.exc = ""] ELSE s

\* a variant of the retry that puts the command a second and a third time
AfterRespTwice(r, cmd) ==
    IF ~Running(r[1]) THEN r[1]
    ELSE IF r[2] = None THEN Raise(r[1], "TypeError")
    ELSE IF Nak(Val(r[2])) THEN send_cmd(send_cmd(r[1], cmd), cmd)
    ELSE r[1]

\* if response[0] != 'o': ... self.send_cmd(cmd); None[0] is a TypeError
AfterResp(r, cmd) ==
    IF ~Running(r[1]) THEN r[1]
    ELSE IF r[2] = None THEN Raise(r[1], "TypeError")
    ELSE IF Nak(Val(r[2])) THEN send_cmd(r[1], cmd)
    ELSE r[1]

AfterSend(s, cmd) == IF Running(s) THEN AfterResp(AwaitResp(s), cmd) ELSE s

DoCommandNet(s, cmd) ==
    IF s.LU THEN Caught(AfterSend(send_cmd(s, cmd), cmd)) ELSE s

DoCommandFile(s, cmd) ==
    IF Running(s) /\ s.GF THEN Caught(send_cmd(s, Append(cmd, "\n"))) ELSE s

do_command(s, cmd) ==
    IF ~Running(s) THEN s
    ELSE DoCommandFile(DoCommandNet(Log(s, "do_command", cmd), cmd), cmd)

----------------------------------------------------------------------------
(* The motion encoder *)

PEN_UP_CMD == <<"G01 Z1000">>
PEN_DOWN_CMD == <<"G01 Z0">>
RETURN_CMD == <<"G01 X1000 Y1000">>

\* if self.LU: self.do_command(cmd)
PenCommand(s, cmd) == IF s.LU THEN do_command(s, cmd) ELSE s

\* a variant of pen_up without the test of the pen's state
pen_up_unguarded(s) ==
    IF ~Running(s) THEN s
    ELSE PenCommand(Log([s EXCEPT !.pen_is_up = TRUE], "pen_up",
                        <<IF s.pen_is_up THEN "was up" ELSE "was down">>),
                    PEN_UP_CMD)

pen_up(s) ==
    IF ~Running(s) THEN s
    ELSE IF ~s.pen_is_up
    THEN PenCommand(Log([s EXCEPT !.pen_is_up = TRUE], "pen_up", <<"was down">>),
                    PEN_UP_CMD)
    ELSE Log(s, "pen_up", <<"was up">>)

pen_down(s) ==
    IF ~Running(s) THEN s
    ELSE IF s.pen_is_up
    THEN PenCommand(Log([s EXCEPT !.pen_is_up = FALSE], "pen_down", <<"was up">>),
                    PEN_DOWN_CMD)
    ELSE Log(s, "pen_down", <<"was down">>)

\* self.distance(x, y) > 0
Moved(x, y) == x * x + y * y > 0

\* 'G01 X' + ("%d" % xt) + ' Y' + ("%d" % yt), kept as its pieces
MoveXY(xt, yt) == <<"G01 X", ToString(FmtD(xt)), " Y", ToString(FmtD(yt))>>
MoveXYZ(xt, yt, z) == Append(MoveXY(xt, yt), z)

\* a variant without the patch: the coordinate move whatever the totals
LineCmdNetMove(xt, yt) == MoveXY(xt, yt)

\* The command of one pass of plot_line's loop to the device.
LineCmdNet(xt, yt) == IF xt * yt # 0 THEN MoveXY(xt, yt) ELSE PEN_UP_CMD

\* One pass of plot_line's loop writing to the file: with the pen up the
\* Z1000 move is written first, then the Z0 move.
LineToFile(s, xt, yt) ==
    IF ~s.pen_is_up
    THEN do_command(s, MoveXYZ(xt, yt, " Z0"))
    ELSE do_command(do_command(s, MoveXYZ(xt, yt, " Z1000")),
                    MoveXYZ(xt, yt, " Z0"))

\* The command or commands of one pass of plot_line's loop.
LineCommands(s, xt, yt) ==
    IF s.LU THEN do_command(s, LineCmdNet(xt, yt)) ELSE LineToFile(s, xt, yt)

\* a variant that starts the totals again at every segment
SetTotals(s, xd, yd) ==
    IF Running(s)
    THEN [s EXCEPT !.svg_total_delta_X = xd, !.svg_total_delta_Y = yd]
    ELSE s

\* self.svg_total_delta_X += xd; self.svg_total_delta_Y += yd
AddTotals(s, xd, yd) ==
    IF Running(s)
    THEN [s EXCEPT !.svg_total_delta_X = @ + xd, !.svg_total_delta_Y = @ + yd]
    ELSE s

\* while (abs(n_delta_x) > 0) or (abs(n_delta_y) > 0):
\* xd, yd are the whole of what is left, so one pass leaves nothing.
RECURSIVE PlotLineLoop(_, _, _)
PlotLineLoop(s, n_delta_x, n_delta_y) ==
    IF ~Running(s) \/ ~(Abs(n_delta_x) > 0 \/ Abs(n_delta_y) > 0) THEN s
    ELSE PlotLineLoop(
             AddTotals(LineCommands(s, s.svg_total_delta_X, -s.svg_total_delta_Y),
                       n_delta_x, n_delta_y),
             n_delta_x - n_delta_x, n_delta_y - n_delta_y)

\* a variant that counts the node before it looks at the distance
PlotLineCounted(s, n_delta_x, n_delta_y) ==
    PlotLineLoop(Log([s EXCEPT !.node_count = @ + 1], "plot_line",
                     <<IF Moved(n_delta_x, n_delta_y) THEN "move" ELSE "still">>),
                 n_delta_x, n_delta_y)

PlotLineBy(s, n_delta_x, n_delta_y) ==
    IF Moved(n_delta_x, n_delta_y)
    THEN PlotLineLoop(Log([s EXCEPT !.node_count = @ + 1], "plot_line", <<"move">>),
                      n_delta_x, n_delta_y)
    ELSE Log(s, "plot_line", <<"still">>)

plot_line(s) ==
    IF ~Running(s) \/ s.fPrevX = None THEN s
    ELSE PlotLineBy(s, Val(s.fX) - Val(s.fPrevX), Val(s.fY) - Val(s.fPrevY))

\* plot_path, the body of `for csp in sp`, piece by piece:
\* self.fX = ...; self.fY = ...
SetPoint(s, pt) == [s EXCEPT !.fX = Some(pt[1]), !.fY = Some(pt[2])]

\* a variant that takes the first point itself as the home point
SetHomeAtPoint(s) ==
    IF s.ptFirst = None
    THEN [s EXCEPT !.fPrevX = s.fX, !.fPrevY = s.fY,
                   !.ptFirst = Some(<<Val(s.fX), Val(s.fY)>>)]
    ELSE s

\* if self.ptFirst is None: the home point
SetHome(s) ==
    IF s.ptFirst = None
    THEN [s EXCEPT !.fPrevX = Some(0), !.fPrevY = s.svg_height,
                   !.ptFirst = Some(<<0, Val(s.svg_height)>>)]
    ELSE s

\* self.fPrevX = self.fX; self.fPrevY = self.fY
SetPrev(s) == IF Running(s) THEN [s EXCEPT !.fPrevX = s.fX, !.fPrevY = s.fY] ELSE s

\* if self.plot_current_layer: self.plot_line(); ...
LineIfPlotting(s) == IF s.plot_current_layer THEN SetPrev(plot_line(s)) ELSE s

\* a variant that lowers the pen at every point after the first
PenAtEveryPoint(s, nIndex) ==
    IF s.plot_current_layer
    THEN IF nIndex = 0 THEN pen_up(s) ELSE pen_down(s)
    ELSE s

\* if self.plot_current_layer: pen up at index 0, pen down at index 1
PenIfPlotting(s, nIndex) ==
    IF s.plot_current_layer
    THEN CASE nIndex = 0 -> pen_up(s)
           [] nIndex = 1 -> pen_down(s)
           [] OTHER      -> s
    ELSE s

PlotPoint(s, pt, nIndex) ==
    PenIfPlotting(LineIfPlotting(SetHome(SetPoint(Log(s, "plot_path", <<"point">>), pt))),
                  nIndex)

----------------------------------------------------------------------------
(* Layer selection *)

Digits == {"0", "1", "2", "3"}
DigitVal(c) == CASE c = "0" -> 0 [] c = "1" -> 1 [] c = "2" -> 2 [] OTHER -> 3

\* str.isdigit
IsDigit(str) == str # <<>> /\ \A i \in 1..Len(str) : str[i] \in Digits

\* int(float(str)) of a string of digits
RECURSIVE IntFloat(_)
IntFloat(str) ==
    IF str = <<>> THEN 0
    ELSE 10 * IntFloat(SubSeq(str, 1, Len(str) - 1)) + DigitVal(Last(str))

\* str.lstrip()
RECURSIVE lstrip(_)
lstrip(str) ==
    IF str # <<>> /\ Head(str) = " " THEN lstrip(Tail(str)) ELSE str

\* a variant of the scan that looks at the first character only
ScanFirstChar(name, string_pos, temp_num_string) ==
    IF string_pos <= Len(name) /\ IsDigit(SubSeq(name, 1, string_pos))
    THEN SubSeq(name, 1, string_pos)
    ELSE temp_num_string

\* while string_pos <= MaxLength: the longest numeric string so far
RECURSIVE ScanLayerName(_, _, _)
ScanLayerName(name, string_pos, temp_num_string) ==
    IF string_pos <= Len(name) /\ IsDigit(SubSeq(name, 1, string_pos))
    THEN ScanLayerName(name, string_pos + 1, SubSeq(name, 1, string_pos))
    ELSE temp_num_string

\* the test of the longest numeric string against the selected layer
LayerTest(s, temp_num_string) ==
    IF IsDigit(temp_num_string) /\ s.svg_layer = IntFloat(temp_num_string)
    THEN [s EXCEPT !.plot_current_layer = TRUE, !.layers_plotted = @ + 1]
    ELSE [s EXCEPT !.plot_current_layer = FALSE]

do_we_plot_layer(s, strLayerName) ==
    LayerTest(s, ScanLayerName(lstrip(strLayerName), 1, <<"x">>))

----------------------------------------------------------------------------
(* The handshake and the manual commands *)

HELLO_BANNER == <<"hello", "VERSION:1", "SERIAL:2", NUL>>

\* field.split(':', 1): the key of a KEY:VALUE word, None for a word with no colon
KeyOf(w) ==
    CASE w = "VERSION:1" -> Some("VERSION")
      [] w = "SERIAL:2"  -> Some("SERIAL")
      [] OTHER           -> None

\* self._sock.send(b''): no byte is sent, the object is as it was
SendNothing(s) == s

\* shlex.split(...), line.pop(0) and the fields of the response
HelloKeys(line) == {KeyOf(line[i]) : i \in 2..Len(line)}

HelloParse(s, line) ==
    IF line = <<>> THEN <<Raise(s, "IndexError"), "">>   \* pop from empty list
    ELSE IF Head(line) # "hello" THEN <<s, "None">>
    ELSE IF None \in HelloKeys(line)
    THEN <<Raise(s, "IndexError"), "">>               \* split_fields[1]
    ELSE IF ~({Some("VERSION"), Some("SERIAL")} \subseteq HelloKeys(line))
    THEN <<Raise(s, "KeyError"), "">>
    ELSE <<s, "Version: 1\nSerial: 2.">>

HelloResp(r) == IF ~Running(r[1]) THEN <<r[1], "">> ELSE HelloParse(r[1], Val(r[2]))

HelloRead(s) == IF Running(s) THEN HelloResp(get_resp(s)) ELSE <<s, "">>

\* get_hello_info(): the pair <<object state, returned value>>
get_hello_info(s) ==
    IF s.connected # "yes" THEN <<s, "Not connected">>
    ELSE HelloRead(SendNothing(s))

\* inkex.errormsg(version_info)
VersionMsg(r) == IF Running(r[1]) THEN Log(r[1], "errormsg", <<r[2]>>) ELSE r[1]

WalkCmd(dx, dy) == <<"G01 X", ToString(dx), " Y", ToString(dy)>>

manual_command(s, opt) ==
    CASE opt.manualType = "none"      -> s
      [] opt.manualType = "raise_pen" -> pen_up(s)
      [] opt.manualType = "lower_pen" -> pen_down(s)
      [] opt.manualType = "version_check" -> VersionMsg(get_hello_info(s))
      [] opt.manualType = "walk_X_motor" ->
            do_command(s, WalkCmd(opt.WalkDistance, 0))
      [] opt.manualType = "walk_Y_motor" ->
            do_command(s, WalkCmd(0, opt.WalkDistance))
      [] OTHER -> s

----------------------------------------------------------------------------
(* Documents *)

H2 == N_PAGE_HEIGHT * Scale

Group == [t |-> "g", layer |-> FALSE, label |-> <<>>, sps |-> <<>>, numeric |-> TRUE,
          rx |-> 0, ry |-> 0, ref |-> 0, transform |-> <<0, 0>>]
Layer(label) == [Group EXCEPT !.layer = TRUE, !.label = label]
EndGroup == [Group EXCEPT !.t = "end"]
PathNode(sps) == [Group EXCEPT !.t = "path", !.sps = sps]
\* a rect; its x, y, width, height are numbers or not
RectNode(sps, numeric) == [Group EXCEPT !.t = "rect", !.sps = sps, !.numeric = numeric]

\* a <line> from p1 to p2: "M x1 y1 L x2 y2"
LineNode(p1, p2, numeric) ==
    [Group EXCEPT !.t = "line", !.sps = << <<p1, p2>> >>, !.numeric = numeric]

\* the node with transform="translate(d[1], d[2])"
Translated(node, d) == [node EXCEPT !.transform = d]

\* a <use>: ref is the index of the element its href finds, 0 if none
UseNode(ref) == [Group EXCEPT !.t = "use", !.ref = ref]

\* an element of another tag, without children
Elem(tag) == [Group EXCEPT !.t = tag]

\* a polyline or polygon with the points pa: "M pa[0] L pa[1] ..." and, for
\* the polygon, " Z", which closes the path at its first point
PolyPath(tag, pa) ==
    IF pa = <<>> THEN <<>>
    ELSE IF tag = "polygon" THEN << Append(pa, pa[1]) >> ELSE << pa >>
PolyNode(tag, pa) == [Group EXCEPT !.t = tag, !.sps = PolyPath(tag, pa)]

\* a circle or ellipse: "M x1,cy A rx,ry 0 1 0 x2,cy A rx,ry 0 1 0 x1,cy",
\* each half flattened to its two ends and its extreme point; an arc of a
\* zero radius is the straight line to its end
ArcPath(c, rx, ry) ==
    CASE rx = 0 -> << <<c, c, c>> >>
      [] ry = 0 -> << << <<c[1] - rx, c[2]>>, <<c[1] + rx, c[2]>>,
                         <<c[1] - rx, c[2]>> >> >>
      [] OTHER  -> << << <<c[1] - rx, c[2]>>, <<c[1], c[2] + ry>>,
                         <<c[1] + rx, c[2]>>, <<c[1], c[2] - ry>>,
                         <<c[1] - rx, c[2]>> >> >>
ArcNode(tag, c, rx, ry) ==
    [Group EXCEPT !.t = tag, !.sps = ArcPath(c, rx, ry), !.rx = rx, !.ry = ry]

pHome == <<0, H2>>
pB == <<Scale, H2>>
pC == <<Scale, H2 - Scale>>
pD == <<1, H2 - 1>>
pE == <<2 * Scale, H2 - Scale>>

\* the rect x=1 y=H-1 w=1 h=1: "M x y l w 0 l 0 h l -w 0 Z"
RectPoints == <<pC, pE, <<2 * Scale, H2>>, pB, pC>>

Items == <<
    << PathNode(<< <<pB, pC>> >>) >>,
    << PathNode(<< <<pC, pD, pE>>, <<pB, pB, pC>> >>) >>,
    << PathNode(<< <<pHome, pB>> >>) >>,
    << PathNode(<<>>) >>,
    << Layer(<<"3">>), PathNode(<< <<pB, pC>> >>), EndGroup >>,
    << Layer(<<"1">>), PathNode(<< <<pC, pE>> >>), EndGroup >>,
    << Layer(<<"1">>), Layer(<<"3">>), PathNode(<< <<pC>> >>), EndGroup,
       PathNode(<< <<pE, pB>> >>), EndGroup >>,
    << Group, PathNode(<< <<pD>> >>), EndGroup >>,
    << RectNode(<<RectPoints>>, TRUE) >>,
    << RectNode(<<>>, FALSE) >>
>>

RECURSIVE Concat(_)
Concat(qs) == IF qs = <<>> THEN <<>> ELSE Head(qs) \o Concat(Tail(qs))

SeqsUpTo(S, n) == UNION {[1..k -> S] : k \in 0..n}

ItemDocs == {Concat([i \in DOMAIN c |-> Items[c[i]]]) : c \in SeqsUpTo(DOMAIN Items, MaxItems)}

LabelChars == {"0", "3", "a", " "}
LabelDocs == {<<Layer(l), PathNode(<< <<pC>> >>), EndGroup>> : l \in SeqsUpTo(LabelChars, MaxLabel)}

\* the tags the traversal passes over, and the tags it draws or enters
IgnoredTags == {"metadata", "defs", "namedview", "lus", "title", "desc",
                "pattern", "radialGradient", "linearGradient", "style",
                "cursor", "color-profile", "comment"}
PolyTags == {"polyline", "polygon"}
ArcTags == {"circle", "ellipse"}
PathTags == {"path", "rect", "line"} \cup PolyTags \cup ArcTags
KnownTags == {"g", "end", "use"} \cup PathTags \cup IgnoredTags

Shapes == {Elem("text"), Elem("image"), Elem("switch"), Elem("defs"),
           Elem("comment"),
           PolyNode("polyline", <<>>), PolyNode("polyline", <<pB, pC>>),
           PolyNode("polygon", <<>>), PolyNode("polygon", <<pB, pC, pE>>),
           ArcNode("circle", pC, 0, 0), ArcNode("circle", pC, 1, 1),
           ArcNode("circle", pHome, 0, 0),
           ArcNode("ellipse", pC, 0, 1), ArcNode("ellipse", pC, 1, 0),
           LineNode(pB, pC, TRUE), LineNode(pB, pC, FALSE),
           RectNode(<<RectPoints>>, TRUE)}

\* one of these elements alone, or with a path before or after it
ShapeDocs == {pre \o <<e>> \o post :
                 e \in Shapes,
                 pre \in {<<>>, << Elem("text") >>, << PathNode(<< <<pD, pB>> >>) >>},
                 post \in {<<>>, << PathNode(<< <<pB, pC>> >>) >>}}

\* documents with references: to nothing, to a path, to a group before the
\* reference, to the group around it, and to the group around that one
UseDocs ==
    {<< UseNode(0), PathNode(<< <<pB, pC>> >>) >>,
     << PathNode(<< <<pB, pC>> >>), UseNode(1) >>,
     << Group, PathNode(<< <<pB, pC>> >>), EndGroup, UseNode(1),
        PathNode(<< <<pE, pD>> >>) >>,
     << Group, PathNode(<< <<pB, pC>> >>), UseNode(1), Elem("defs"), EndGroup >>,
     << Layer(<<"1">>), Group, UseNode(1), EndGroup, EndGroup >>,
     << Group, UseNode(0), UseNode(5), EndGroup, Elem("defs") >>}

\* s.strip()
RECURSIVE LStrip(_)
LStrip(str) == IF str # <<>> /\ Head(str) = " " THEN LStrip(Tail(str)) ELSE str
RECURSIVE RStrip(_)
RStrip(str) ==
    IF str # <<>> /\ str[Len(str)] = " " THEN RStrip(SubSeq(str, 1, Len(str) - 1)) ELSE str
strip(str) == RStrip(LStrip(str))

\* the number written by a run of digits
RECURSIVE DecimalOf(_, _)
DecimalOf(str, acc) ==
    IF str = <<>> THEN acc ELSE DecimalOf(Tail(str), 10 * acc + DigitVal(Head(str)))

\* float(s) of a string of digits, spaces and the letters of units; None
\* stands for the ValueError
float(str) ==
    IF strip(str) # <<>> /\ \A k \in DOMAIN strip(str) : strip(str)[k] \in Digits
    THEN Some(DecimalOf(strip(str), 0))
    ELSE None

\* parse_length_with_units, from the stripped string on: the pair (v, u)
ParseUnits(s) ==
    CASE Len(s) >= 2 /\ SubSeq(s, Len(s) - 1, Len(s)) = <<"p", "x">> ->
            <<float(SubSeq(s, 1, Len(s) - 2)), "px">>
      [] Len(s) >= 1 /\ s[Len(s)] = "%" ->
            <<float(SubSeq(s, 1, Len(s) - 1)), "%">>
      [] OTHER -> <<float(s), "px">>

parse_length_with_units(lwu) ==
    IF ParseUnits(strip(lwu))[1] = None THEN <<None, None>> ELSE ParseUnits(strip(lwu))

\* a variant of get_length without its test `if not v`
LengthOfAnyNumber(vu, default) ==
    CASE vu[1] = None -> Some(0)
      [] vu[2] \in {"", "px"} -> Some(Scale * Val(vu[1]))
      [] OTHER -> Some((Scale * default * Val(vu[1])) \div 100)

\* get_length, from the parsed pair on; lengths are in units of 1/Scale
LengthOf(vu, default) ==
    CASE vu[1] = None -> None
      [] Val(vu[1]) = 0 -> None                      \* if not v
      [] vu[2] \in {"", "px"} -> Some(Scale * Val(vu[1]))
      [] vu[2] = "%" -> Some((Scale * default * Val(vu[1])) \div 100)
      [] OTHER -> None

\* get_length(name, default) for the attribute's value; <<>> is no value
get_length(str, default) ==
    IF str = <<>> THEN Some(Scale * default)
    ELSE LengthOf(parse_length_with_units(str), default)

\* get_doc_properties() returns True
Usable(doc) ==
    /\ get_length(doc.height, N_PAGE_HEIGHT) # None
    /\ get_length(doc.width, N_PAGE_WIDTH) # None

\* the height and width attributes of the root: none; ones that give the
\* default page ("2000", "2000px", "100%", " 2000 "); and ones that give no
\* length ("0", "10mm", "px", " ", "0%", and a width "10mm")
NoDims == << <<>>, <<>> >>
GoodDims ==
    {NoDims,
     << <<"2", "0", "0", "0">>, <<>> >>,
     << <<"2", "0", "0", "0", "p", "x">>, <<"2", "0", "0", "0">> >>,
     << <<"1", "0", "0", "%">>, <<"1", "0", "0", "%">> >>,
     << <<" ", "2", "0", "0", "0", " ">>, <<>> >>}
BadDims ==
    {<< <<"0">>, <<>> >>,
     << <<"1", "0", "m", "m">>, <<>> >>,
     << <<"p", "x">>, <<>> >>,
     << <<" ">>, <<>> >>,
     << <<"0", "%">>, <<"2", "0", "0", "0">> >>,
     << <<>>, <<"1", "0", "m", "m">> >>}

\* the straight path from (0, 0) to (100, 0)
LineDoc == << PathNode(<< << <<0, 0>>, <<100 * Scale, 0>> >> >>) >>

\* documents with a transform on a path, on a group, and on both
TransformDocs ==
    {<< Translated(PathNode(<< <<pB, pC>> >>), <<Scale, 0>>) >>,
     << Translated(Group, <<0, -Scale>>), PathNode(<< <<pB, pC>> >>), EndGroup,
        PathNode(<< <<pC, pE>> >>) >>,
     << Translated(Layer(<<"1">>), <<1, 1>>),
        Translated(PathNode(<< <<pC, pD, pE>> >>), <<-1, 0>>), EndGroup >>}

\* the documents plotted while the device or the link misbehaves
\* paths of two subpaths: 'M C L E M D L E' and 'M C L E M D L D L E'
JumpDocs == {<< PathNode(<< <<pC, pE>>, <<pD, pE>> >>) >>,
             << PathNode(<< <<pC, pE>>, <<pD, pD, pE>> >>) >>}

SmallDocs == {<<>>,
              << PathNode(<< <<pB, pC>> >>) >>,
              << Layer(<<"3">>), PathNode(<< <<pC, pE>> >>), EndGroup >>}

\* An attribute of a <lus> marker element as node.get() and int() see it:
\* the decimal writing of an integer, a text int() rejects, or no attribute.
IntField(n) == [kind |-> "int", v |-> n]
TextField == [kind |-> "text", v |-> 0]
NoField == [kind |-> "missing", v |-> 0]

MarkerFields == <<"layer", "node", "lastpath", "lastpathnc", "totaldeltax", "totaldeltay">>

\* the marker with the six integers
Marker(l, n, lp, lpnc, tx, ty) ==
    [layer |-> IntField(l), node |-> IntField(n), lastpath |-> IntField(lp),
     lastpathnc |-> IntField(lpnc), totaldeltax |-> IntField(tx),
     totaldeltay |-> IntField(ty)]

ZeroMarker == Marker(0, 0, 0, 0, 0, 0)
SavedMarker == Marker(3, 2, 1, 2, 1, 1)

\* the marker elements of the model's documents
MarkerElems ==
    {ZeroMarker, SavedMarker, Marker(1, 1, 2, 1, 2, 0),
     [SavedMarker EXCEPT !.layer = NoField],
     [SavedMarker EXCEPT !.node = TextField],
     [SavedMarker EXCEPT !.lastpathnc = TextField],
     [SavedMarker EXCEPT !.totaldeltay = NoField]}

\* the <lus> children of the document's root, in document order
Markers == UNION {[1..k -> MarkerElems] : k \in 0..MaxMarkers}

Tabs == {"splash", "layers", "gcode", "manual", "controls"}
ManualTypes == {"none", "raise_pen", "lower_pen", "version_check",
                "walk_X_motor", "walk_Y_motor", "controls"}

Options == {o \in [tab : Tabs, layernumber : {N_DEFAULT_LAYER, 3},
                   manualType : ManualTypes, WalkDistance : {N_WALK_DEFAULT}] :
               /\ o.tab # "layers" => o.layernumber = N_DEFAULT_LAYER
               /\ o.tab # "manual" => o.manualType = "controls"}

\* the tabs that traverse the document
Plots(opt) == opt.tab \in {"splash", "layers", "gcode"}

\* how the connection attempt ends
ConnOutcomes == {"connected", "banner", "dropped", "refused", "gaierror"}

\* what a device that greets otherwise has sent when the query reads it
Greeting(conn) ==
    CASE conn = "greet empty"   -> <<NUL>>
      [] conn = "greet error"   -> <<"error", NUL>>
      [] conn = "greet bare"    -> <<"hello", NUL>>
      [] conn = "greet word"    -> <<"hello", "junk", NUL>>
      [] conn = "greet version" -> <<"hello", "VERSION:1", NUL>>
      [] OTHER                  -> HELLO_BANNER
Greetings == {"greet empty", "greet error", "greet bare", "greet word",
              "greet version"}

\* the outcomes of the attempt of a job: the other greetings are those of
\* the jobs that query the device
Outcomes(opt) ==
    IF opt.manualType = "version_check" THEN ConnOutcomes \cup Greetings
    ELSE ConnOutcomes

Scripts(n) == SeqsUpTo(Events, n)

----------------------------------------------------------------------------
(* subdivide_cubic_path.  A chain is a sequence of nodes <<handle in, point, *)
(* handle out>>; coordinates and the tolerance are whole numbers of one     *)
(* unit, and a split makes the unit eight times smaller, so that the        *)
(* midpoints it computes are exact; the unit is then made as coarse again   *)
(* as the numbers allow.  sd.unit counts the units in one unit of the       *)
(* chain the function was given, sd.sp0.                                    *)

\* no chain is being subdivided
IdleSub == [at |-> "idle", sp |-> <<>>, i |-> 1, flat |-> 1, unit |-> 1,
            sp0 |-> <<>>, kept |-> <<>>]

Dot(u, v) == u[1] * v[1] + u[2] * v[2]
Minus(u, v) == <<u[1] - v[1], u[2] - v[2]>>
Cross(u, v) == Abs(u[1] * v[2] - u[2] * v[1])

\* a * a > n, for a >= 0
SquareAbove(a, n) == a # 0 /\ a > n \div a

\* seg.distance_to_point(p) > flat for the segment from a to b: the distance
\* to the nearer end when p is beside the segment, to its line otherwise
TooFar(p, a, b, flat) ==
    CASE Dot(Minus(p, a), Minus(b, a)) <= 0 ->
            Dot(Minus(p, a), Minus(p, a)) > flat * flat
      [] Dot(Minus(p, a), Minus(b, a)) >= Dot(Minus(b, a), Minus(b, a)) ->
            Dot(Minus(p, b), Minus(p, b)) > flat * flat
      [] OTHER ->
            SquareAbove(Cross(Minus(p, a), Minus(b, a)),
                        flat * flat * Dot(Minus(b, a), Minus(b, a)))

\* b = (p0, p1, p2, p3) of the segment that ends at node i (counted from 0)
Bez(sp, i) == <<sp[i][2], sp[i][3], sp[i + 1][1], sp[i + 1][2]>>

\* bezier.maxdist(b) > flat
Exceeds(b, flat) == TooFar(b[2], b[1], b[4], flat) \/ TooFar(b[3], b[1], b[4], flat)

\* the chain in the unit eight times smaller
Times8(v) == <<8 * v[1], 8 * v[2]>>
Finer(sp) == [k \in DOMAIN sp |-> <<Times8(sp[k][1]), Times8(sp[k][2]), Times8(sp[k][3])>>]

\* bezier.beziersplitatt(b, 0.5), of b in the coarser unit: the two handles
\* kept (one[1], two[2]) and the node p = [one[2], one[3], two[1]]
Mix(b, w) == <<w[1] * b[1][1] + w[2] * b[2][1] + w[3] * b[3][1] + w[4] * b[4][1],
               w[1] * b[1][2] + w[2] * b[2][2] + w[3] * b[3][2] + w[4] * b[4][2]>>
SplitOut(b) == Mix(b, <<4, 4, 0, 0>>)
SplitIn(b) == Mix(b, <<0, 0, 4, 4>>)
SplitNode(b) == << Mix(b, <<2, 4, 2, 0>>), Mix(b, <<1, 3, 3, 1>>), Mix(b, <<0, 2, 4, 2>>) >>

\* sp[i - 1][2] = one[1]; sp[i][0] = two[2]; sp[i:1] = [p]
Inserted(sp, i, b) ==
    SubSeq(Finer(sp), 1, i - 1)
    \o << <<Times8(sp[i][1]), Times8(sp[i][2]), SplitOut(b)>>,
          SplitNode(b),
          <<SplitIn(b), Times8(sp[i + 1][2]), Times8(sp[i + 1][3])>> >>
    \o SubSeq(Finer(sp), i + 2, Len(sp))

\* the same chain and tolerance in the coarsest unit that keeps them whole
Even(v) == v[1] % 2 = 0 /\ v[2] % 2 = 0
Half(v) == <<v[1] \div 2, v[2] \div 2>>
RECURSIVE Coarsest(_)
Coarsest(d) ==
    IF /\ d.unit % 2 = 0 /\ d.flat % 2 = 0
       /\ \A k \in DOMAIN d.sp : Even(d.sp[k][1]) /\ Even(d.sp[k][2]) /\ Even(d.sp[k][3])
    THEN Coarsest([d EXCEPT !.unit = d.unit \div 2, !.flat = d.flat \div 2,
                            !.sp = [k \in DOMAIN d.sp |->
                                      <<Half(d.sp[k][1]), Half(d.sp[k][2]), Half(d.sp[k][3])>>]])
    ELSE d

\* a variant of the step to the next segment that passes over one
NextSegmentSkipping(i) == i + 2

\* i += 1
NextSegment(i) == i + 1

\* the places of the chain's first nodes after a node is put in at place i
Shifted(kept, i) == [k \in DOMAIN kept |-> IF kept[k] >= i THEN kept[k] + 1 ELSE kept[k]]

----------------------------------------------------------------------------
(* Python's floats.  A float is written <<hi, lo>> and is the number        *)
(* (hi * Limb + lo) / 2^43 with 0 <= lo < Limb: every double of magnitude   *)
(* below 2048 that is a multiple of 2^-43 is written so, among them the     *)
(* whole numbers and the doubles from 512 up.  From 1024 up a double is a   *)
(* multiple of 2^-42, so that a sum or a difference there is rounded to the *)
(* nearest one, to the even one of two as near; below 1024 it is exact.     *)

Limb == 2^27

\* float(n) of a whole number
Whole(n) == <<n * 2^16, 0>>

Carry(hi, lo) == IF lo >= Limb THEN <<hi + 1, lo - Limb>> ELSE <<hi, lo>>

\* -a
FNeg(a) == IF a[2] = 0 THEN <<-a[1], 0>> ELSE <<-a[1] - 1, Limb - a[2]>>

\* the double nearest to a number that is not below zero
RoundUp(a) ==
    CASE a[1] < 2^26 \/ a[2] % 2 = 0 -> a
      [] a[2] % 4 = 1 -> <<a[1], a[2] - 1>>
      [] OTHER -> Carry(a[1], a[2] + 1)

Round(a) == IF a[1] < 0 THEN FNeg(RoundUp(FNeg(a))) ELSE RoundUp(a)

\* a + b and a - b
FAdd(a, b) == Round(Carry(a[1] + b[1], a[2] + b[2]))
FSub(a, b) == FAdd(a, FNeg(b))

\* "%d" % a
FmtFloat(a) == IF a[1] < 0 THEN -(FNeg(a)[1] \div 2^16) ELSE a[1] \div 2^16

\* no stream of points is being walked
IdleFloat == [at |-> "idle", paths |-> <<>>, nIndex |-> 0, LU |-> FALSE,
              pen_is_up |-> TRUE, fX |-> None, fY |-> None, fPrevX |-> None,
              fPrevY |-> None, ptFirst |-> None, plot_current_layer |-> TRUE,
              svg_total_delta_X |-> Whole(0), svg_total_delta_Y |-> Whole(0),
              out |-> <<>>]

----------------------------------------------------------------------------
(* The state *)

NewLUS == [pen_is_up |-> TRUE, fX |-> None, fY |-> None, fPrevX |-> None,
           fPrevY |-> None, ptFirst |-> None, node_count |-> 0,
           node_target |-> 0, path_count |-> 0, layers_plotted |-> 0,
           svg_layer |-> 0, svg_node_count |-> 0, svg_data_read |-> FALSE,
           svg_last_path |-> 0, svg_last_path_NC |-> 0,
           svg_total_delta_X |-> 0, svg_total_delta_Y |-> 0,
           svg_height |-> Some(H2), svg_width |-> Some(N_PAGE_WIDTH * Scale), LU |-> FALSE, GF |-> FALSE, warnings |-> {},
           \* set by effect() and connect(), absent before
           all_layers |-> FALSE, plot_current_layer |-> FALSE,
           connected |-> "unset"]

NewSock == [sock_state |-> "none", attempt |-> "none", link |-> "down",
            rx |-> <<>>, wire |-> <<>>]
NewFile == [fil_state |-> "none", lines |-> <<>>]
IdleRead == [tim |-> 0, lin |-> <<>>, rx |-> <<>>, link |-> "down", at |-> "idle"]

Restrict(s, D) == [f \in D |-> s[f]]

\* the object state a step starts from
Self(net) == lus @@ sock @@ fil @@
             [ctl |-> "run", exc |-> "", net |-> net, calls |-> <<>>,
              markers |-> document.markers]

\* `with open(...) as self.fil` closes the file when an exception leaves it
WithExit(s) ==
    IF s.ctl = "raised" /\ s.fil_state = "open"
    THEN [s EXCEPT !.fil_state = "closed"] ELSE s

\* the step leaves the object in state s and effect() at `to`
Commit(s, net, to) ==
    /\ lus' = Restrict(s, DOMAIN lus)
    /\ sock' = Restrict(s, DOMAIN sock)
    /\ fil' = Restrict(WithExit(s), DOMAIN fil)
    /\ calls' = IF s.ctl = "raised"
                THEN Append(s.calls, [op |-> "uncaught", arg |-> <<s.exc>>])
                ELSE s.calls
    /\ budget' = budget - (Len(net) - Len(s.net))
    /\ pc' = CASE s.ctl = "raised" -> "aborted"
               [] s.ctl = "hung"   -> "hung"
               [] OTHER            -> to

Init ==
    /\ \E nodes \in ItemDocs \cup LabelDocs \cup SmallDocs \cup ShapeDocs \cup UseDocs
                      \cup TransformDocs \cup {LineDoc} \cup JumpDocs,
          budgeted \in 0..MaxFaults :
          \E m \in IF nodes \in SmallDocs /\ budgeted = 0 THEN Markers ELSE {<<>>},
             dims \in CASE nodes \in SmallDocs /\ budgeted = 0 -> {NoDims} \cup BadDims
                        [] nodes = LineDoc -> GoodDims
                        [] OTHER -> {NoDims} :
             /\ document = [nodes |-> nodes, markers |-> m, found |-> m,
                            height |-> dims[1], width |-> dims[2]]
             /\ budget = budgeted
    /\ options \in Options
    /\ budget > 0 => document.nodes \in SmallDocs
    /\ document.nodes \in LabelDocs =>
          /\ options.tab = "layers" /\ document.markers = <<>>
    /\ document.nodes \in (ShapeDocs \cup UseDocs \cup TransformDocs \cup {LineDoc}
                           \cup JumpDocs) \ ItemDocs =>
          /\ Plots(options) /\ document.markers = <<>>
          /\ budget = 0
    /\ Len(document.markers) > 1 => document.nodes = <<>> /\ Usable(document)
    /\ pc = "start"
    /\ nodeIx = 1
    /\ spIx = 1
    /\ ptIx = 0
    /\ encl = <<>>
    /\ refs = <<>>
    /\ lus = NewLUS
    /\ sock = NewSock
    /\ fil = NewFile
    /\ calls = <<>>
    /\ rl = IdleRead
    /\ sd = IdleSub
    /\ fp = IdleFloat

----------------------------------------------------------------------------
(* effect() and plot_to_lus(), step by step *)

\* self.<field> = int(...) for the field of the marker of that name
Assign(s, name, v) ==
    CASE name = "layer"       -> [s EXCEPT !.svg_layer = v]
      [] name = "node"        -> [s EXCEPT !.svg_node_count = v]
      [] name = "lastpath"    -> [s EXCEPT !.svg_last_path = v]
      [] name = "lastpathnc"  -> [s EXCEPT !.svg_last_path_NC = v]
      [] name = "totaldeltax" -> [s EXCEPT !.svg_total_delta_X = IntOf(v)]
      [] OTHER                -> [s EXCEPT !.svg_total_delta_Y = IntOf(v)]

\* except ValueError: the four attributes are set to '0' in the document
ResetMarker(m) ==
    [m EXCEPT !.lastpath = IntField(0), !.lastpathnc = IntField(0),
              !.totaldeltax = IntField(0), !.totaldeltay = IntField(0)]

\* int(node.get(name)) of the marker i, for the fields from the k-th on:
\* int(None) is a TypeError; a ValueError is caught from the third field on
RECURSIVE ReadFields(_, _, _)
ReadField(s, i, k, f) ==
    CASE f.kind = "missing" -> Raise(s, "int(None)")
      [] f.kind = "text" /\ k <= 2 -> Raise(s, "int(text)")
      [] f.kind = "text" ->
            [s EXCEPT !.markers[i] = ResetMarker(@), !.svg_data_read = TRUE]
      [] OTHER -> ReadFields(Assign(s, MarkerFields[k], f.v), i, k + 1)

ReadFields(s, i, k) ==
    IF k > Len(MarkerFields) THEN [s EXCEPT !.svg_data_read = TRUE]
    ELSE ReadField(s, i, k, s.markers[i][MarkerFields[k]])

\* recursive_lus_data_scan: for node in aNodeList, every <lus> child
RECURSIVE recursive_lus_data_scan(_, _)
recursive_lus_data_scan(s, i) ==
    IF ~Running(s) \/ i > Len(s.markers) THEN s
    ELSE recursive_lus_data_scan(ReadFields(s, i, 1), i + 1)

\* if not self.svg_data_read: a marker of zeros is added to the document
AddMarker(s) ==
    IF Running(s) /\ ~s.svg_data_read
    THEN [s EXCEPT !.markers = Append(@, ZeroMarker)]
    ELSE s

check_svg_for_lus_data(s) ==
    AddMarker(recursive_lus_data_scan([s EXCEPT !.svg_data_read = FALSE], 1))

\* str(self.<field>) for the six fields
MarkerOf(s) ==
    Marker(s.svg_layer, s.svg_node_count, s.svg_last_path, s.svg_last_path_NC,
           s.svg_total_delta_X \div Scale, s.svg_total_delta_Y \div Scale)

\* update_svg_lus_data: for node in aNodeList, every <lus> child is written
update_svg_lus_data(s) ==
    [s EXCEPT !.markers = [k \in DOMAIN s.markers |-> MarkerOf(s)],
              !.svg_data_read = (s.markers # <<>>)]

\* self._sock = socket.socket(...)
NewSocket(s) == [s EXCEPT !.sock_state = "open"]

\* connect(): only ConnectionError is caught.  The attempt ends connected
\* (the device may greet with its hello line, or drop the connection at
\* once), refused (a ConnectionError), or with another OSError (the name
\* line-us.local does not resolve: socket.gaierror).
Connect(s, conn) ==
    CASE conn = "connected" -> [s EXCEPT !.connected = "yes", !.link = "up"]
      [] conn \in Greetings \cup {"banner"} ->
            [s EXCEPT !.connected = "yes", !.link = "up", !.rx = Greeting(conn)]
      [] conn = "refused"   -> [s EXCEPT !.connected = "no"]
      [] conn = "dropped"   -> [s EXCEPT !.connected = "yes", !.link = "reset"]
      [] OTHER              -> Raise(s, "gaierror")

connect(s, conn) == Connect([s EXCEPT !.attempt = conn], conn)

get_doc_properties(s, doc) ==
    [s EXCEPT !.svg_height = get_length(doc.height, N_PAGE_HEIGHT),
              !.svg_width = get_length(doc.width, N_PAGE_WIDTH)]

\* plot_to_lus() up to the traversal: the message and the return when
\* get_doc_properties() is False
PlotBegin(s, doc) ==
    IF Usable(doc) THEN get_doc_properties(s, doc)
    ELSE Log(get_doc_properties(s, doc), "errormsg", <<"invalid dimensions">>)

\* the fields effect() sets before a plot of all layers
AllLayers(s) ==
    [s EXCEPT !.all_layers = TRUE, !.plot_current_layer = TRUE,
              !.svg_node_count = 0, !.svg_last_path = 0,
              !.svg_layer = ALL_LAYERS_MARK]

\* the fields effect() sets before a plot of one layer
OneLayer(s, opt) ==
    [s EXCEPT !.all_layers = FALSE, !.plot_current_layer = FALSE,
              !.layers_plotted = 0, !.svg_last_path = 0,
              !.svg_node_count = 0, !.svg_layer = opt.layernumber]

\* self.LU = True; self._sock = socket.socket(...); self.connect()
OpenDevice(s, conn) == connect(NewSocket([s EXCEPT !.LU = TRUE]), conn)

\* self.GF = True; open(Gcode_file, 'w'); the header line
OpenFile(s) ==
    write([s EXCEPT !.GF = TRUE, !.fil_state = "open"], <<"G54 X0 Y0 S1\n">>)

\* the branch of effect() for the active tab, once the backend is there
TabBody(s, doc, opt) ==
    IF ~Running(s) THEN s
    ELSE CASE opt.tab = "manual" -> manual_command(s, opt)
           [] opt.tab = "layers" -> PlotBegin(OneLayer(s, opt), doc)
           [] OTHER              -> PlotBegin(AllLayers(s), doc)

TabOpen(s, opt, conn) ==
    CASE ~Running(s) -> s
      [] opt.tab \in {"splash", "manual", "layers"} -> OpenDevice(s, conn)
      [] opt.tab = "gcode" -> OpenFile(s)
      [] OTHER -> s

\* effect() from its entry to the call of the traversal
EffectBegin(s, doc, opt, conn) ==
    IF opt.tab \in {"splash", "manual", "layers", "gcode"}
    THEN TabBody(TabOpen(check_svg_for_lus_data(s), opt, conn), doc, opt)
    ELSE check_svg_for_lus_data(s)

\* the step leaves the document's markers as the object state has them
CommitDoc(s, net, to) ==
    /\ Commit(s, net, to)
    /\ document' = [document EXCEPT !.markers = s.markers]

Effect ==
    /\ pc = "start"
    /\ \E conn \in Outcomes(options), net \in Scripts(budget) :
          CommitDoc(EffectBegin(Self(net), document, options, conn), net,
                    IF Plots(options) /\ Usable(document) THEN "traverse" ELSE "final")
    /\ UNCHANGED <<options, nodeIx, spIx, ptIx, encl, refs, rl, sd, fp>>

AtNode == pc = "traverse" /\ nodeIx <= Len(document.nodes)
Node == document.nodes[nodeIx]

\* the last node of the element that begins at node j
RECURSIVE EndOfGroup(_, _, _)
EndOfGroup(nodes, i, depth) ==
    CASE nodes[i].t = "g" -> EndOfGroup(nodes, i + 1, depth + 1)
      [] nodes[i].t = "end" /\ depth = 1 -> i
      [] nodes[i].t = "end" -> EndOfGroup(nodes, i + 1, depth - 1)
      [] OTHER -> EndOfGroup(nodes, i + 1, depth)

EndOf(nodes, j) == IF nodes[j].t = "g" THEN EndOfGroup(nodes, j + 1, 1) ELSE j

\* the node the loop is at after node i - 1: past the last node of a
\* referenced element the recursion returns to the node after the <use>
RECURSIVE Resume(_, _)
Resume(i, st) ==
    IF st # <<>> /\ i > Last(st).last
    THEN Resume(Last(st).ret, SubSeq(st, 1, Len(st) - 1))
    ELSE <<i, st>>

\* for node in aNodeList: the next node
Advance ==
    /\ nodeIx' = Resume(nodeIx + 1, refs)[1]
    /\ refs' = Resume(nodeIx + 1, refs)[2]

\* a <use>: nothing if its reference finds no element, else the recursion
\* into the element found
TraverseUse ==
    /\ AtNode /\ Node.t = "use"
    /\ CASE Node.ref = 0 ->
              /\ Advance
              /\ calls' = <<>>
              /\ UNCHANGED <<pc, lus, sock, fil, budget>>
         [] Node.ref # 0 /\ Len(refs) >= MaxDepth ->
              /\ Commit(Raise(Self(<<>>), "RecursionError"), <<>>, "traverse")
              /\ UNCHANGED <<nodeIx, refs>>
         [] OTHER ->
              /\ nodeIx' = Node.ref
              /\ refs' = Append(refs, [ret |-> nodeIx + 1,
                                       last |-> EndOf(document.nodes, Node.ref)])
              /\ calls' = <<>>
              /\ UNCHANGED <<pc, lus, sock, fil, budget>>
    /\ UNCHANGED <<document, options, spIx, ptIx, encl, rl, sd, fp>>

\* a group node: the layer test, then the recursion into its children
TraverseGroup ==
    /\ AtNode /\ Node.t = "g"
    /\ Commit(IF Node.layer /\ ~lus.all_layers
              THEN Log(do_we_plot_layer(Self(<<>>), Node.label),
                       "do_we_plot_layer", Node.label)
              ELSE Self(<<>>),
              <<>>, "traverse")
    /\ encl' = Append(encl, Node)
    /\ nodeIx' = nodeIx + 1
    /\ UNCHANGED <<document, options, spIx, ptIx, refs, rl, sd, fp>>

\* the recursion returns from a group's children
TraverseReturn ==
    /\ AtNode /\ Node.t = "end"
    /\ encl' = SubSeq(encl, 1, Len(encl) - 1)
    /\ Advance
    /\ calls' = <<>>
    /\ UNCHANGED <<document, options, pc, spIx, ptIx, lus, sock, fil, budget, rl, sd, fp>>

\* path_count += 1, then d = "M " + pa[0] of the points pa of the node
PolyToPath(s, node) ==
    IF node.sps = <<>>
    THEN Raise([s EXCEPT !.path_count = @ + 1], "IndexError")
    ELSE [s EXCEPT !.path_count = @ + 1]

\* a path node, or a shape made a path: up to the loop of plot_path
TraversePath ==
    /\ AtNode /\ Node.t \in PathTags
    /\ Commit(CASE Node.t \in PolyTags -> PolyToPath(Self(<<>>), Node)
                [] Node.t = "rect" /\ ~Node.numeric ->
                      Raise(Self(<<>>), "ValueError")   \* float()
                [] Node.t = "rect" -> Self(<<>>)
                [] Node.t = "line" /\ ~Node.numeric ->
                      Raise([Self(<<>>) EXCEPT !.path_count = @ + 1], "ValueError")
                [] OTHER -> [Self(<<>>) EXCEPT !.path_count = @ + 1],
              <<>>, "path")
    /\ spIx' = 1
    /\ ptIx' = 0
    /\ UNCHANGED <<document, options, nodeIx, encl, refs, rl, sd, fp>>

AtPoint == pc = "path" /\ spIx <= Len(Node.sps)

\* matCurrent @ Transform(node.get("transform")), through the groups the
\* traversal is inside of
RECURSIVE Composed(_, _)
Composed(groups, d) ==
    IF groups = <<>> THEN d
    ELSE Composed(Tail(groups), <<d[1] + Head(groups).transform[1],
                                  d[2] + Head(groups).transform[2]>>)

matNew == Composed(encl, Node.transform)

\* Path(p).transform(Transform(matTransform)): a path with every point moved
Transformed(p, mat) ==
    [i \in DOMAIN p |->
        [j \in DOMAIN p[i] |-> <<p[i][j][1] + mat[1], p[i][j][2] + mat[2]>>]]

\* p at the loop of plot_path: the transformed path is computed and dropped,
\* p is as CubicSuperPath made it
Superpath(p, transformed) == p

\* plot_path: one point of one subpath
PathPoint ==
    /\ AtPoint
    /\ \E net \in Scripts(budget) :
          Commit(PlotPoint(Self(net),
                           Superpath(Node.sps, Transformed(Node.sps, matNew))[spIx][ptIx + 1],
                           ptIx),
                 net, "path")
    /\ IF ptIx + 1 < Len(Node.sps[spIx])
       THEN spIx' = spIx /\ ptIx' = ptIx + 1
       ELSE spIx' = spIx + 1 /\ ptIx' = 0
    /\ UNCHANGED <<document, options, nodeIx, encl, refs, rl, sd, fp>>

\* plot_path has returned
PathDone ==
    /\ pc = "path" /\ spIx > Len(Node.sps)
    /\ Commit(IF Node.t # "rect"
              THEN [Self(<<>>) EXCEPT !.svg_last_path = @ + 1,
                                      !.svg_last_path_NC = lus.node_count]
              ELSE Self(<<>>),
              <<>>, "traverse")
    /\ Advance
    /\ UNCHANGED <<document, options, spIx, ptIx, encl, rl, sd, fp>>

\* an element the traversal passes over
TraverseIgnored ==
    /\ AtNode /\ Node.t \in IgnoredTags
    /\ Advance
    /\ calls' = <<>>
    /\ UNCHANGED <<document, options, pc, spIx, ptIx, encl, lus, sock, fil, budget, rl, sd, fp>>

\* self.warnings.has_key(tag): a dict has no attribute has_key
has_key(s, tag) == Raise(s, "AttributeError")

\* inkex.errormsg(...) and self.warnings[tag] = 1, unless the key is there
Warn(s, tag) ==
    IF ~Running(s) \/ tag \in s.warnings THEN s
    ELSE [Log(s, "errormsg", <<tag>>) EXCEPT !.warnings = @ \cup {tag}]

\* a text, an image, or an element of a tag the traversal does not know
TraverseUnsupported ==
    /\ AtNode /\ Node.t \notin KnownTags
    /\ Commit(Warn(has_key(Self(<<>>), Node.t), Node.t), <<>>, "traverse")
    /\ Advance
    /\ UNCHANGED <<document, options, spIx, ptIx, encl, rl, sd, fp>>

\* a variant of the return home that lifts the pen before the last move
ReturnHomePenFirst(s) ==
    IF s.ptFirst # None
    THEN do_command(
             plot_line(pen_up(
                 Log([s EXCEPT !.fX = Some(Val(s.ptFirst)[1]),
                               !.fY = Some(Val(s.ptFirst)[2]),
                               !.node_count = s.node_target],
                     "plot_to_lus", <<"home">>))),
             RETURN_CMD)
    ELSE Log(s, "plot_to_lus", <<"no home">>)

\* plot_to_lus() after the traversal: the return home and the reset
ReturnHome(s) ==
    IF s.ptFirst # None
    THEN do_command(
             pen_up(plot_line(
                 Log([s EXCEPT !.fX = Some(Val(s.ptFirst)[1]),
                               !.fY = Some(Val(s.ptFirst)[2]),
                               !.node_count = s.node_target],
                     "plot_to_lus", <<"home">>))),
             RETURN_CMD)
    ELSE Log(s, "plot_to_lus", <<"no home">>)

ResetProgress(s) ==
    IF Running(s)
    THEN [s EXCEPT !.svg_layer = 0, !.svg_last_path = 0,
                   !.svg_last_path_NC = 0, !.svg_total_delta_X = 0,
                   !.svg_total_delta_Y = 0]
    ELSE s

PlotTail(s) == ResetProgress(ReturnHome(s))

PlotEnd ==
    /\ pc = "traverse" /\ nodeIx > Len(document.nodes)
    /\ \E net \in Scripts(budget) : Commit(PlotTail(Self(net)), net, "final")
    /\ UNCHANGED <<document, options, nodeIx, spIx, ptIx, encl, refs, rl, sd, fp>>

\* effect(): the common final section
EffectFinal(s) ==
    [s EXCEPT !.sock_state = IF s.LU THEN "closed" ELSE @,
              !.fil_state = IF s.GF THEN "closed" ELSE @,
              !.LU = FALSE, !.GF = FALSE]

Final ==
    /\ pc = "final"
    /\ CommitDoc(Log(EffectFinal(update_svg_lus_data(Self(<<>>))), "effect", <<"final">>),
                 <<>>, "done")
    /\ UNCHANGED <<options, nodeIx, spIx, ptIx, encl, refs, rl, sd, fp>>

Next ==
    \/ Effect
    \/ TraverseGroup
    \/ TraverseReturn
    \/ TraversePath
    \/ TraverseUse
    \/ TraverseIgnored
    \/ TraverseUnsupported
    \/ PathPoint
    \/ PathDone
    \/ PlotEnd
    \/ Final

Spec == Init /\ [][Next]_vars

----------------------------------------------------------------------------
(* get_resp() on its own, one statement at a time *)

MaxRx == 3

RxSymbols == {"ok", "error", NUL}

InitRead ==
    /\ document = [nodes |-> <<>>, markers |-> <<>>, found |-> <<>>,
                   height |-> <<>>, width |-> <<>>]
    /\ options \in {o \in Options : o.tab = "splash"}
    /\ pc = "get_resp"
    /\ nodeIx = 1
    /\ spIx = 1
    /\ ptIx = 0
    /\ encl = <<>>
    /\ refs = <<>>
    /\ lus = [NewLUS EXCEPT !.LU = TRUE, !.connected = "yes"]
    /\ \E rx \in SeqsUpTo(RxSymbols, MaxRx), link \in {"up", "closed", "reset"} :
          /\ sock = [NewSock EXCEPT !.sock_state = "open", !.attempt = "connected",
                                    !.link = link, !.rx = rx]
          /\ rl = RespStart(sock)
    /\ fil = NewFile
    /\ calls = <<>>
    /\ budget = 0
    /\ sd = IdleSub
    /\ fp = IdleFloat

ReadFrame == UNCHANGED <<document, options, pc, nodeIx, spIx, ptIx, encl, refs, lus,
                         sock, fil, calls, budget, sd, fp>>

\* while tim < 1000:
ReadTest == rl.at = "test" /\ rl' = RespTest(rl) /\ ReadFrame

\* char = self._sock.recv(1), and the branch on char
ReadRecv == rl.at = "recv" /\ rl' = RespRecv(rl) /\ ReadFrame

\* tim = tim+1; time.sleep(0.01)
ReadTick == rl.at = "tick" /\ rl' = RespTick(rl) /\ ReadFrame

\* return lin.decode('utf-8')
ReadReturn ==
    /\ rl.at = "exit"
    /\ rl' = [rl EXCEPT !.at = "returned", !.lin = Val(RespResult(rl))]
    /\ ReadFrame

NextRead == ReadTest \/ ReadRecv \/ ReadTick \/ ReadReturn

ReadSpec == InitRead /\ [][NextRead]_vars

\* the interpreter goes on to the next statement whenever there is one
FairReadSpec == ReadSpec /\ WF_vars(NextRead)

----------------------------------------------------------------------------
(* subdivide_cubic_path(sp, flat) on its own, one pass of its loop at a time *)

Knot(p) == <<p, p, p>>

\* the chains handed to the function: none, one node, straight segments,
\* arches, an S, handles beyond the ends of the chord, a cusp
Chains ==
    {<<>>,
     << Knot(<<0, 0>>) >>,
     << Knot(<<0, 0>>), Knot(<<4, 0>>) >>,
     << Knot(<<0, 0>>), Knot(<<4, 0>>), Knot(<<4, 4>>) >>,
     << <<<<0, 0>>, <<0, 0>>, <<0, 2>>>>, <<<<4, 2>>, <<4, 0>>, <<4, 0>>>> >>,
     << <<<<0, 0>>, <<0, 0>>, <<0, 4>>>>, <<<<4, 4>>, <<4, 0>>, <<4, 0>>>> >>,
     << <<<<0, 0>>, <<0, 0>>, <<0, 2>>>>, <<<<4, -2>>, <<4, 0>>, <<4, 0>>>> >>,
     << <<<<0, 0>>, <<0, 0>>, <<-2, 0>>>>, <<<<6, 0>>, <<4, 0>>, <<4, 0>>>> >>,
     << <<<<0, 0>>, <<0, 0>>, <<4, 4>>>>, <<<<0, 4>>, <<4, 0>>, <<4, 0>>>> >>,
     << <<<<0, 0>>, <<0, 0>>, <<0, 0>>>>, <<<<4, 3>>, <<4, 0>>, <<4, 0>>>> >>,
     << <<<<0, 0>>, <<0, 0>>, <<0, 2>>>>, <<<<4, 2>>, <<4, 0>>, <<4, -2>>>>,
        <<<<0, -2>>, <<0, 0>>, <<0, 0>>>> >>,
     << Knot(<<0, 0>>), <<<<4, 0>>, <<4, 0>>, <<4, 3>>>>,
        <<<<1, 4>>, <<4, 4>>, <<4, 4>>>> >>,
     << <<<<0, 0>>, <<2, 2>>, <<2, 2>>>>, <<<<2, 2>>, <<2, 2>>, <<0, 0>>>> >>}

\* the tolerances, in units
Tolerances == {1, 2, 3}

InitFlat ==
    /\ document = [nodes |-> <<>>, markers |-> <<>>, found |-> <<>>,
                   height |-> <<>>, width |-> <<>>]
    /\ options \in {o \in Options : o.tab = "splash"}
    /\ pc = "plot_path"
    /\ nodeIx = 1
    /\ spIx = 1
    /\ ptIx = 0
    /\ encl = <<>>
    /\ refs = <<>>
    /\ lus = NewLUS
    /\ sock = NewSock
    /\ fil = NewFile
    /\ calls = <<>>
    /\ budget = 0
    /\ rl = IdleRead
    /\ fp = IdleFloat
    /\ \E sp \in Chains, flat \in Tolerances :
          sd = [at |-> "loop", sp |-> sp, i |-> 2, flat |-> flat, unit |-> 1,
                sp0 |-> sp, kept |-> [k \in DOMAIN sp |-> k]]

FlatFrame == UNCHANGED <<document, options, pc, nodeIx, spIx, ptIx, encl, refs, lus,
                         sock, fil, calls, budget, rl, fp>>

\* if i >= len(sp): return
SubReturn ==
    /\ sd.at = "loop" /\ sd.i > Len(sd.sp)
    /\ sd' = [sd EXCEPT !.at = "returned"]
    /\ FlatFrame

\* the segment is flat enough: i += 1
SubNext ==
    /\ sd.at = "loop" /\ sd.i <= Len(sd.sp)
    /\ ~Exceeds(Bez(sd.sp, sd.i - 1), sd.flat)
    /\ sd' = [sd EXCEPT !.i = NextSegment(sd.i)]
    /\ FlatFrame

\* the segment is not flat enough: it is split in two at its middle
SubSplit ==
    /\ sd.at = "loop" /\ sd.i <= Len(sd.sp)
    /\ Exceeds(Bez(sd.sp, sd.i - 1), sd.flat)
    /\ sd' = Coarsest([sd EXCEPT !.sp = Inserted(sd.sp, sd.i - 1, Bez(sd.sp, sd.i - 1)),
                                 !.flat = 8 * sd.flat,
                                 !.unit = 8 * sd.unit,
                                 !.kept = Shifted(sd.kept, sd.i)])
    /\ FlatFrame

NextFlat == SubReturn \/ SubNext \/ SubSplit

FlatSpec == InitFlat /\ [][NextFlat]_vars

\* the interpreter goes on to the next statement whenever there is one
FairFlatSpec == FlatSpec /\ WF_vars(NextFlat)

----------------------------------------------------------------------------
(* plot_path's loop over the points and plot_line, on floats, one point a   *)
(* step, for a job that starts with totals of zero.  fp.out holds the       *)
(* instructions of the last step.                                           *)

MaxPaths == 2
MaxPoints == 2

\* the points (10, 584.641), (20, 1561), (1700.25, 1000), (584.641, 1999.9)
FloatPoints ==
    {<<Whole(10), <<38315032, 77309411>>>>,
     <<Whole(20), Whole(1561)>>,
     <<<<111427584, 0>>, Whole(1000)>>,
     <<<<38315032, 77309411>>, <<131065446, 53687092>>>>}

\* a path: its points, and whether its layer is plotted
FloatPaths ==
    {[pts |-> pts, plot |-> plot] :
        pts \in SeqsUpTo(FloatPoints, MaxPoints) \ {<<>>}, plot \in BOOLEAN}

InitTotals ==
    /\ document = [nodes |-> <<>>, markers |-> <<>>, found |-> <<>>,
                   height |-> <<>>, width |-> <<>>]
    /\ options \in {o \in Options : o.tab = "splash"}
    /\ pc = "plot_path"
    /\ nodeIx = 1
    /\ spIx = 1
    /\ ptIx = 0
    /\ encl = <<>>
    /\ refs = <<>>
    /\ lus = NewLUS
    /\ sock = NewSock
    /\ fil = NewFile
    /\ calls = <<>>
    /\ budget = 0
    /\ rl = IdleRead
    /\ sd = IdleSub
    /\ \E paths \in SeqsUpTo(FloatPaths, MaxPaths), LU \in BOOLEAN :
          fp = [IdleFloat EXCEPT !.at = "loop", !.paths = paths, !.LU = LU]

TotalsFrame == UNCHANGED <<document, options, pc, nodeIx, spIx, ptIx, encl, refs, lus,
                           sock, fil, calls, budget, rl, sd>>

\* self.fX = float(csp[1][0]); self.fY = float(csp[1][1]); the home point
FloatAt(f, pt) ==
    IF f.ptFirst = None
    THEN [f EXCEPT !.fX = Some(pt[1]), !.fY = Some(pt[2]),
                   !.fPrevX = Some(Whole(0)), !.fPrevY = Some(Whole(N_PAGE_HEIGHT)),
                   !.ptFirst = Some(<<Whole(0), Whole(N_PAGE_HEIGHT)>>),
                   !.out = <<>>]
    ELSE [f EXCEPT !.fX = Some(pt[1]), !.fY = Some(pt[2]), !.out = <<>>]

\* 'G01 X' + ("%d" % xt) + ' Y' + ("%d" % yt)
FloatMove(xt, yt) == <<"G01 X", ToString(FmtFloat(xt)), " Y", ToString(FmtFloat(yt))>>

\* the instructions of one pass of plot_line's loop
FloatCommands(f, xt, yt) ==
    CASE f.LU /\ xt # Whole(0) /\ yt # Whole(0) -> << FloatMove(xt, yt) >>
      [] f.LU -> << PEN_UP_CMD >>
      [] ~f.pen_is_up -> << Append(FloatMove(xt, yt), " Z0") >>
      [] OTHER -> << Append(FloatMove(xt, yt), " Z1000"),
                     Append(FloatMove(xt, yt), " Z0") >>

\* plot_line with n_delta_x = dx and n_delta_y = dy
FloatLineBy(f, dx, dy) ==
    IF dx # Whole(0) \/ dy # Whole(0)
    THEN [f EXCEPT !.out = FloatCommands(f, f.svg_total_delta_X,
                                         FNeg(f.svg_total_delta_Y)),
                   !.svg_total_delta_X = FAdd(@, dx),
                   !.svg_total_delta_Y = FAdd(@, dy)]
    ELSE f

\* if self.plot_current_layer: self.plot_line(); self.fPrevX = self.fX; ...
FloatLine(f) ==
    IF f.plot_current_layer
    THEN [FloatLineBy(f, FSub(Val(f.fX), Val(f.fPrevX)), FSub(Val(f.fY), Val(f.fPrevY)))
             EXCEPT !.fPrevX = f.fX, !.fPrevY = f.fY]
    ELSE f

\* pen_up() at index 0 and pen_down() at index 1 of a plotted path
FloatPen(f) ==
    CASE f.plot_current_layer /\ f.nIndex = 0 /\ ~f.pen_is_up ->
            [f EXCEPT !.pen_is_up = TRUE,
                      !.out = IF f.LU THEN Append(@, PEN_UP_CMD) ELSE @]
      [] f.plot_current_layer /\ f.nIndex = 1 /\ f.pen_is_up ->
            [f EXCEPT !.pen_is_up = FALSE,
                      !.out = IF f.LU THEN Append(@, PEN_DOWN_CMD) ELSE @]
      [] OTHER -> f

\* nIndex += 1, and the next path after the last point of one
FloatNext(f) ==
    IF f.nIndex + 1 < Len(Head(f.paths).pts)
    THEN [f EXCEPT !.nIndex = @ + 1]
    ELSE [f EXCEPT !.nIndex = 0, !.paths = Tail(@)]

\* the layer of the path the walk is in
FloatLayer(f) == [f EXCEPT !.plot_current_layer = Head(f.paths).plot]

\* a point of a path whose layer is plotted
FloatPointPlotted ==
    /\ fp.at = "loop" /\ fp.paths # <<>> /\ Head(fp.paths).plot
    /\ fp' = FloatNext(FloatPen(FloatLine(
                 FloatAt(FloatLayer(fp), Head(fp.paths).pts[fp.nIndex + 1]))))
    /\ TotalsFrame

\* a point of a path whose layer is not plotted
FloatPointSkipped ==
    /\ fp.at = "loop" /\ fp.paths # <<>> /\ ~Head(fp.paths).plot
    /\ fp' = FloatNext(FloatPen(FloatLine(
                 FloatAt(FloatLayer(fp), Head(fp.paths).pts[fp.nIndex + 1]))))
    /\ TotalsFrame

\* the last path is walked
FloatEnd ==
    /\ fp.at = "loop" /\ fp.paths = <<>>
    /\ fp' = [fp EXCEPT !.at = "walked", !.out = <<>>]
    /\ TotalsFrame

NextTotals == FloatPointPlotted \/ FloatPointSkipped \/ FloatEnd

TotalsSpec == InitTotals /\ [][NextTotals]_vars

----------------------------------------------------------------------------
(* Properties.  `calls` holds the calls of the last step in call order, so  *)
(* a property of what one call of a method does is a property of the log.  *)

IsCall(i, op) == i \in DOMAIN calls /\ calls[i].op = op

\* the entries of the log that the channel writes under a do_command
ChannelOps == {"sendall", "get_resp"}

\* the log entry that follows the channel traffic of the do_command at i
RECURSIVE TrafficEnd(_)
TrafficEnd(j) ==
    IF j <= Len(calls) /\ calls[j].op \in ChannelOps THEN TrafficEnd(j + 1) ELSE j

Sends(i) == {j \in (i + 1)..(TrafficEnd(i + 1) - 1) : calls[j].op = "sendall"}

\* the non-empty responses read for the do_command at i
Resps(i) == {j \in (i + 1)..(TrafficEnd(i + 1) - 1) :
                 calls[j].op = "get_resp" /\ calls[j].arg # <<>>}

Acked(j) == FirstChar(calls[j].arg[1]) = "o"

\* C1: in network mode every do_command transmits its own command string:
\* once if the response read for it begins with 'o', exactly once more after
\* the response if it does not, never more than twice, and the exception of
\* no transmission leaves the job.
C1_RetryOnce ==
    \A i \in DOMAIN calls :
        IsCall(i, "do_command") =>
            /\ \A j \in Sends(i) : calls[j].arg = Append(calls[i].arg, TERMINATOR)
            /\ Cardinality(Sends(i)) <= 2
            /\ Cardinality(Resps(i)) <= 1
            /\ \A r \in Resps(i) :
                  IF Acked(r)
                  THEN Cardinality(Sends(i)) = 1
                  ELSE /\ Cardinality(Sends(i)) = 2
                       /\ Cardinality({j \in Sends(i) : j > r}) = 1
            /\ Resps(i) = {} => Cardinality(Sends(i)) <= 1
            /\ ~IsCall(Len(calls), "uncaught")

\* a command was refused and put again: the wire holds its frame twice
C1_Retried ==
    \E i \in DOMAIN calls :
        /\ IsCall(i, "do_command")
        /\ \E r \in Resps(i) : ~Acked(r)
        /\ Cardinality(Sends(i)) = 2
        /\ Len(sock.wire) >= 2
        /\ sock.wire[Len(sock.wire)] = sock.wire[Len(sock.wire) - 1]
        /\ pc \notin {"aborted", "hung"}

\* an object state without the log of its calls
Fields(s) == [s EXCEPT !.calls = <<>>, !.exc = ""]

Commands(s) == {i \in DOMAIN s.calls : s.calls[i].op = "do_command"}

\* C2: pen_up with the pen up, and pen_down with the pen down, issue no
\* command and change no field; pen_up twice in a row issues what pen_up
\* once issues, at most one command (and so for pen_down).
C2_PenIdempotent ==
    /\ \A net \in Scripts(1) :
          LET s == Self(net)
              u == pen_up(s)
              d == pen_down(s)
          IN  /\ lus.pen_is_up => Fields(u) = Fields(s) /\ Commands(u) = {}
              /\ ~lus.pen_is_up => Fields(d) = Fields(s) /\ Commands(d) = {}
              /\ Cardinality(Commands(u)) <= 1
              /\ Commands(pen_up(u)) = Commands(u)
              /\ Fields(pen_up(u)) = Fields(u)
              /\ Cardinality(Commands(d)) <= 1
              /\ Commands(pen_down(d)) = Commands(d)
              /\ Fields(pen_down(d)) = Fields(d)
    /\ \A i \in DOMAIN calls :
          (calls[i].op \in {"pen_up", "pen_down"}
              /\ calls[i].arg = <<IF calls[i].op = "pen_up" THEN "was up" ELSE "was down">>)
          => \/ i = Len(calls)
             \/ calls[i + 1].op # "do_command"
             \/ calls[i + 1].arg = RETURN_CMD

\* pen_up was called with the pen up, on a connected device
C2_PenUpAgain ==
    /\ lus.LU /\ lus.connected = "yes" /\ lus.pen_is_up
    /\ \E i \in DOMAIN calls : calls[i] = [op |-> "pen_up", arg |-> <<"was up">>]

\* C3: once the job has ended, by its normal end or by an exception, the
\* socket of a connected device is closed and the output file is closed.
C3_BackendReleased ==
    (pc \in {"done", "aborted"} /\ sock.attempt \in {"connected", "banner"})
        => sock.sock_state # "open" /\ fil.fil_state # "open"

\* the exceptions of a send, a receive or a write on a backend
ChannelErrors == {"sendall", "recv", "write"}

\* C4: no exception raised by a send or a receive on a backend leaves the
\* step that made the call: the job is never aborted by one.
C4_ChannelErrorsSwallowed ==
    ~(/\ pc = "aborted"
      /\ IsCall(Len(calls), "uncaught")
      /\ calls[Len(calls)].arg[1] \in ChannelErrors)

\* C5: a connection attempt that fails does not end the job: the object is
\* in disconnected mode, nothing is written to the socket, and the job is
\* neither aborted nor waiting for a response.
C5_ConnectFailureNotFatal ==
    (pc # "start" /\ sock.attempt \in {"refused", "gaierror"})
        => /\ pc \notin {"aborted", "hung"}
           /\ lus.connected = "no"
           /\ sock.wire = <<>>

\* C6: when the peer has closed the connection, get_resp still returns.
C6_RespTerminates ==
    rl.link = "closed" => <>(rl.at = "returned")

\* What a label selects, said without the scan: the label without its
\* leading spaces, the length of its longest prefix of digits, and the
\* number that prefix writes in base ten.
LeadingSpaces(str) ==
    CHOOSE k \in 0..Len(str) :
        /\ \A i \in 1..k : str[i] = " "
        /\ k = Len(str) \/ str[k + 1] # " "

Stripped(str) == SubSeq(str, LeadingSpaces(str) + 1, Len(str))

DigitRun(str) ==
    CHOOSE k \in 0..Len(str) :
        /\ \A i \in 1..k : str[i] \in Digits
        /\ k = Len(str) \/ str[k + 1] \notin Digits

RECURSIVE Pow10(_)
Pow10(n) == IF n = 0 THEN 1 ELSE 10 * Pow10(n - 1)

RECURSIVE Decimal(_, _)
Decimal(str, k) ==
    IF k = 0 THEN 0 ELSE DigitVal(str[1]) * Pow10(k - 1) + Decimal(Tail(str), k - 1)

LabelMatches(label, n) ==
    /\ DigitRun(Stripped(label)) >= 1
    /\ Decimal(Stripped(label), DigitRun(Stripped(label))) = n

\* the label of the innermost layer group around the traversal, if any
RECURSIVE InnermostLayer(_)
InnermostLayer(stack) ==
    IF stack = <<>> THEN None
    ELSE IF Last(stack).layer THEN Some(Last(stack).label)
    ELSE InnermostLayer(SubSeq(stack, 1, Len(stack) - 1))

InSelectedLayer ==
    /\ InnermostLayer(encl) # None
    /\ LabelMatches(Val(InnermostLayer(encl)), options.layernumber)

IsCmd(e) == e.op = "do_command"

\* the commands of the last step, in the order of their do_command calls
Cmds == SelectSeq(calls, IsCmd)

\* C7: in the mode that plots one layer, a point whose innermost enclosing
\* layer group does not match the selected number, or that is in no layer
\* group, is walked and issues no command.
C7_OnlySelectedLayer ==
    (options.tab = "layers" /\ IsCall(1, "plot_path") /\ ~InSelectedLayer)
        => Cmds = <<>>

IsStep(e) == e.op \in {"plot_line", "pen_up", "pen_down", "do_command"}

\* the calls of the last step to the encoder's methods and to do_command
Steps == SelectSeq(calls, IsStep)

\* the job has just run the end of plot_to_lus
AtJobEnd == pc = "final" /\ IsCall(1, "plot_to_lus")

HomeRecorded == calls[1].arg = <<"home">>

\* the commands plot_line issues for one segment: one to the device; to the
\* file one with the pen down, two (the Z1000 move, then the Z0 move) with
\* the pen up
LineInstructions(toDevice, penUp) == IF toDevice \/ ~penUp THEN 1 ELSE 2

\* the end of plot_to_lus with a home point, as the calls it makes:
\* plot_line to the home point and its instructions, pen_up and its command
\* if the pen was down on a device, then the command of the return
ReturnCalls(q, p) ==
    /\ q[1].op = "plot_line"
    /\ q[1].arg = <<"still">> <=>
           (lus.fPrevX = Some(Val(lus.ptFirst)[1]) /\ lus.fPrevY = Some(Val(lus.ptFirst)[2]))
    /\ q[p].op = "pen_up"
    /\ p - 2 = IF q[1].arg = <<"still">> THEN 0
               ELSE LineInstructions(lus.LU, q[p].arg = <<"was up">>)
    /\ \A j \in 2..(p - 1) :
          q[j].op = "do_command" /\ q[j].arg \notin {PEN_DOWN_CMD, RETURN_CMD}
    /\ IF lus.LU /\ q[p].arg = <<"was down">>
       THEN Len(q) = p + 2 /\ q[p + 1] = [op |-> "do_command", arg |-> PEN_UP_CMD]
       ELSE Len(q) = p + 1
    /\ q[Len(q)] = [op |-> "do_command", arg |-> RETURN_CMD]

\* C9: at the end of the job, if a home point was recorded, plot_to_lus
\* calls plot_line towards the home point (which issues the segment's
\* instructions unless the position is the home point already), then
\* pen_up (which issues 'G01 Z1000' only to a device and only if the pen was
\* down; the pen is up afterwards), then issues 'G01 X1000 Y1000' as the
\* last command of the job; with no home point it issues no command.
C9_ReturnHome ==
    /\ AtJobEnd =>
          IF HomeRecorded
          THEN /\ lus.pen_is_up
               /\ \E p \in 2..(Len(Steps) - 1) : ReturnCalls(Steps, p)
          ELSE Steps = <<>>
    /\ pc = "done" => Cmds = <<>>

\* C9 as first stated: with a home point the last commands of the job are
\* three, a move, the pen-up command and the return command, in this order.
C9_ThreeCommands ==
    (AtJobEnd /\ HomeRecorded)
        => /\ Len(Cmds) = 3
           /\ Cmds[2].arg = PEN_UP_CMD
           /\ Cmds[3].arg = RETURN_CMD
           /\ lus.pen_is_up

\* the job of a connected device ended with the move, the pen-up command
\* and the return command, all three on the wire
C9_HomeReached ==
    /\ AtJobEnd /\ HomeRecorded
    /\ Len(Cmds) = 3
    /\ Cmds[1].arg \notin {PEN_UP_CMD, PEN_DOWN_CMD, RETURN_CMD}
    /\ Cmds[2].arg = PEN_UP_CMD
    /\ Len(sock.wire) >= 3
    /\ \A k \in 0..2 :
          sock.wire[Len(sock.wire) - k] = Append(Cmds[3 - k].arg, TERMINATOR)

\* the point the step arrives at, and the position it leaves
PointNow == Node.sps[spIx][ptIx + 1]
PrevX == IF lus.ptFirst = None THEN 0 ELSE Val(lus.fPrevX)
PrevY == IF lus.ptFirst = None THEN Val(lus.svg_height) ELSE Val(lus.fPrevY)

\* the position of the first call of a pen method in a log, or its end
RECURSIVE PenAt(_, _)
PenAt(q, j) ==
    IF j > Len(q) \/ q[j].op \in {"pen_up", "pen_down"} THEN j ELSE PenAt(q, j + 1)

\* the do_command calls of plot_line in a log
LineCmds(q) == {j \in 1..(PenAt(q, 1) - 1) : q[j].op = "do_command"}

\* a step of the traversal that is not a point of a path
BetweenPoints ==
    /\ pc \in {"traverse", "path"}
    /\ ~AtPoint
    /\ ~(pc = "traverse" /\ nodeIx > Len(document.nodes))

TotalsAdvance(dx, dy) ==
    /\ lus'.svg_total_delta_X = lus.svg_total_delta_X + dx
    /\ lus'.svg_total_delta_Y = lus.svg_total_delta_Y + dy

\* C10: for a plotted point at non-zero distance from the previous position
\* plot_line issues one instruction to the device, or to the file one
\* instruction with the pen down and two with the pen up, and adds (dx, dy)
\* once to the totals; between points and paths the totals stay as they are.
C10_SegmentAccounting ==
    [][/\ (AtPoint /\ lus.plot_current_layer /\ pc' = "path"
              /\ Moved(PointNow[1] - PrevX, PointNow[2] - PrevY))
          => /\ TotalsAdvance(PointNow[1] - PrevX, PointNow[2] - PrevY)
             /\ Cardinality(LineCmds(calls')) = LineInstructions(lus.LU, lus.pen_is_up)
       /\ BetweenPoints => TotalsAdvance(0, 0)]_vars

\* C10 as first stated: one instruction for every segment.
C10_OneInstruction ==
    [][(AtPoint /\ lus.plot_current_layer /\ pc' = "path"
           /\ Moved(PointNow[1] - PrevX, PointNow[2] - PrevY))
        => /\ TotalsAdvance(PointNow[1] - PrevX, PointNow[2] - PrevY)
           /\ Cardinality(LineCmds(calls')) = 1]_vars

\* a segment written to the file with the pen up, after an earlier segment:
\* two instructions, and totals that hold more than this segment
C10_TwoToFile ==
    /\ pc = "path" /\ lus.GF
    /\ IsCall(2, "plot_line") /\ calls[2].arg = <<"move">>
    /\ Cardinality(LineCmds(calls)) = 2
    /\ lus.node_count >= 2
    /\ lus.svg_total_delta_X # 0 /\ lus.svg_total_delta_Y # 0

\* the last step encoded a segment: plot_line found a non-zero distance
Encoded(q) == \E k \in DOMAIN q : q[k] = [op |-> "plot_line", arg |-> <<"move">>]

\* the instructions of the segment of the step, in a log
LineArgs(q) == {q[j].arg : j \in LineCmds(q)}

TotalX == lus.svg_total_delta_X
TotalY == lus.svg_total_delta_Y

\* C11: in network mode the instruction of a segment is 'G01 Z1000' when
\* the product of the cumulative totals at that moment is zero, and the
\* coordinate move 'G01 X<int> Y<int>' of the totals when it is not; to the
\* file the instructions are coordinate moves whatever the product.
C11_LiftPatch ==
    [][Encoded(calls') =>
          IF lus.LU
          THEN LineArgs(calls') =
                   {IF TotalX * TotalY = 0 THEN PEN_UP_CMD ELSE MoveXY(TotalX, -TotalY)}
          ELSE /\ LineArgs(calls') # {}
               /\ LineArgs(calls') \subseteq
                      {MoveXYZ(TotalX, -TotalY, " Z0"), MoveXYZ(TotalX, -TotalY, " Z1000")}]_vars

\* C11 as first stated: whatever the backend, a pen-lift when the product
\* is zero and a coordinate move when it is not.
C11_LiftPatchAnyMode ==
    [][Encoded(calls') =>
          LineArgs(calls') =
              {IF TotalX * TotalY = 0 THEN PEN_UP_CMD ELSE MoveXY(TotalX, -TotalY)}]_vars

\* a coordinate move went to the device after a pen-lift had replaced one
C11_MoveSent ==
    /\ lus.LU /\ lus.connected = "yes" /\ pc = "path"
    /\ sock.wire # <<>>
    /\ \E a \in LineArgs(calls) : a # PEN_UP_CMD /\ Append(a, TERMINATOR) = Last(sock.wire)
    /\ \E i \in DOMAIN sock.wire : sock.wire[i] = Append(PEN_UP_CMD, TERMINATOR)

\* the entries of the pen methods in a log
PenCalls(q) == {k \in DOMAIN q : q[k].op \in {"pen_up", "pen_down"}}

\* what the log says of the pen at the call of a pen method
WasUp(e) == e.arg = <<"was up">>

\* C12: at a plotted point at distance 0 from the previous position plot_line
\* issues no command and leaves node_count, both totals and the pen as they
\* were (the pen method called after it finds the pen as the step found it).
C12_ZeroDistance ==
    [][(AtPoint /\ lus.plot_current_layer
            /\ PointNow[1] = PrevX /\ PointNow[2] = PrevY)
        => /\ lus'.node_count = lus.node_count
           /\ TotalsAdvance(0, 0)
           /\ LineCmds(calls') = {}
           /\ ~Encoded(calls')
           /\ \A k \in PenCalls(calls') : WasUp(calls'[k]) = lus.pen_is_up]_vars

\* a point was plotted at the place of the point before it, on a device
C12_StoodStill ==
    /\ pc = "path" /\ lus.LU /\ lus.connected = "yes"
    /\ IsCall(2, "plot_line") /\ calls[2].arg = <<"still">>
    /\ lus.node_count >= 1
    /\ PenCalls(calls) # {}

\* C13: at a plotted point the pen method called depends on the index of
\* the point in its subpath alone: pen_up at index 0, pen_down at index 1,
\* none at any other index; a point that is not plotted calls none.
C13_PositionalPen ==
    [][(AtPoint /\ pc' = "path")
        => /\ Cardinality(PenCalls(calls')) =
                  (IF lus.plot_current_layer /\ ptIx \in {0, 1} THEN 1 ELSE 0)
           /\ \A k \in PenCalls(calls') :
                  calls'[k].op = (IF ptIx = 0 THEN "pen_up" ELSE "pen_down")
           /\ (~lus.plot_current_layer \/ ptIx > 1) => lus'.pen_is_up = lus.pen_is_up]_vars

\* a third point of a subpath was plotted with the pen down: no pen method
C13_ThirdPoint ==
    /\ pc = "path" /\ lus.plot_current_layer /\ ~lus.pen_is_up
    /\ (ptIx = 3 \/ (ptIx = 0 /\ spIx > 1 /\ Len(Node.sps[spIx - 1]) = 3))
    /\ Encoded(calls)
    /\ PenCalls(calls) = {}

HomePoint == Some(<<0, Val(lus.svg_height)>>)

\* C14: the first point walked records home = (0, page height), whatever
\* the point, and the segment to it is measured from home; a recorded home
\* is never changed.
C14_HomeFixed ==
    [][/\ lus.ptFirst # None => lus'.ptFirst = lus.ptFirst
       /\ (AtPoint /\ lus.ptFirst = None)
          => /\ lus'.ptFirst = HomePoint
             /\ ~lus.plot_current_layer =>
                    lus'.fPrevX = Some(0) /\ lus'.fPrevY = lus.svg_height
             /\ (lus.plot_current_layer /\ pc' = "path") =>
                    TotalsAdvance(PointNow[1], PointNow[2] - Val(lus.svg_height))
       /\ (~AtPoint /\ lus.ptFirst = None) => lus'.ptFirst = None]_vars

\* home is recorded, and the first point walked was another point
C14_HomeRecorded ==
    /\ pc = "path" /\ spIx = 1 /\ ptIx = 1
    /\ lus.ptFirst = HomePoint
    /\ lus.path_count = 1
    /\ <<Val(lus.fX), Val(lus.fY)>> # Val(lus.ptFirst)
    /\ lus.fPrevX = lus.fX /\ lus.fPrevY = lus.fY

\* the six fields of the object that hold the Progress State
Progress(l) ==
    <<l.svg_layer, l.svg_node_count, l.svg_last_path, l.svg_last_path_NC,
      l.svg_total_delta_X, l.svg_total_delta_Y>>

Unreadable(m) == \E k \in DOMAIN MarkerFields : m[MarkerFields[k]].kind # "int"

\* the job ran no tab that assigns the six fields after the read
ReadOnly == pc # "start" /\ options.tab = "controls"

\* C15: reading the Progress State never fails the job: with no marker, or
\* a marker with a missing or non-integer field, the job goes on and the six
\* fields are zero.
C15_ReadNeverFails ==
    (/\ ReadOnly
     /\ \/ document.found = <<>>
        \/ Len(document.found) = 1 /\ Unreadable(document.found[1]))
    => /\ pc # "aborted"
       /\ Progress(lus) = <<0, 0, 0, 0, 0, 0>>

\* C16: of several markers the first alone is read at the start of the job
\* and one alone is written at its end: the others leave the fields as the
\* first set them and are as the job found them.
C16_OneMarker ==
    (/\ ReadOnly /\ pc = "done"
     /\ Len(document.found) > 1
     /\ \A i \in DOMAIN document.found : ~Unreadable(document.found[i]))
    => /\ MarkerOf(lus) = document.found[1]
       /\ \A i \in 2..Len(document.found) : document.markers[i] = document.found[i]

\* the warnings of a log for a tag
Warnings(q, tag) == {k \in DOMAIN q : q[k] = [op |-> "errormsg", arg |-> <<tag>>]}

\* the traversal goes on with the node after this one
Continues == pc' = "traverse" /\ Advance

\* C17: a text, an image or an element of an unknown tag is recoverable: the
\* step warns of the tag unless it has warned of it before, records the tag,
\* and the traversal goes on with the next node.
C17_UnsupportedRecoverable ==
    [][(AtNode /\ Node.t \notin KnownTags)
        => /\ Continues
           /\ lus'.warnings = lus.warnings \cup {Node.t}
           /\ Cardinality(Warnings(calls', Node.t)) =
                  (IF Node.t \in lus.warnings THEN 0 ELSE 1)]_vars

\* C19: a polyline or polygon without points is passed over: no path is
\* walked for it, no command is issued, no error is raised, and the
\* traversal goes on with the next node.
C19_EmptyPolySkipped ==
    [][(AtNode /\ Node.t \in PolyTags /\ Node.sps = <<>>)
        => /\ Continues
           /\ Commands([calls |-> calls']) = {}
           /\ \A k \in DOMAIN calls' : calls'[k].op # "uncaught"]_vars

ZeroRadius(node) == node.t \in ArcTags /\ (node.rx = 0 \/ node.ry = 0)

\* C20: a circle or ellipse of a zero radius is passed over, no path of it
\* reaches plot_path; a document of one circle with r = 0 issues no command
\* in any step of the job.
C20_ZeroRadiusSkipped ==
    [][/\ (AtNode /\ ZeroRadius(Node)) => Continues
       /\ (Len(document.nodes) = 1 /\ ZeroRadius(document.nodes[1])
           /\ document.nodes[1].t = "circle")
          => Commands([calls |-> calls']) = {}]_vars

\* the <use> at the node refers to a group it is inside of
RefersToAncestor ==
    /\ Node.ref # 0
    /\ document.nodes[Node.ref].t = "g"
    /\ Node.ref < nodeIx
    /\ nodeIx <= EndOf(document.nodes, Node.ref)

\* the recursion into the element found, to return to the node after the <use>
RecursesOnce ==
    /\ pc' = "traverse"
    /\ nodeIx' = Node.ref
    /\ refs' = Append(refs, [ret |-> nodeIx + 1,
                             last |-> EndOf(document.nodes, Node.ref)])

\* C18: a <use> whose reference finds nothing is passed over in silence; a
\* <use> that refers to a group around it ends the job with an error and is
\* not recursed into; any other <use> is recursed into once.
C18_UseNodes ==
    [][(AtNode /\ Node.t = "use")
        => CASE Node.ref = 0 -> Continues /\ calls' = <<>> /\ lus' = lus
             [] RefersToAncestor -> pc' = "aborted"
             [] OTHER -> RecursesOnce]_vars

\* the job is a query of the device that has read the line at k of the log
QueryRead(k) ==
    /\ pc # "start" /\ options.tab = "manual"
    /\ options.manualType = "version_check"
    /\ IsCall(k, "get_resp")

\* a line that is not 'hello' and the words VERSION:... and SERIAL:...
BadHello(line) ==
    \/ line = <<>>
    \/ Head(line) # "hello"
    \/ \E i \in 2..Len(line) : KeyOf(line[i]) = None
    \/ ~({Some("VERSION"), Some("SERIAL")} \subseteq {KeyOf(line[i]) : i \in 2..Len(line)})

\* C21: a query whose response is not a well-formed hello line (empty, of
\* another first word, or without its KEY:VALUE fields) raises nothing and
\* reports None.
C21_HandshakeNeverRaises ==
    \A k \in DOMAIN calls :
        (QueryRead(k) /\ BadHello(calls[k].arg))
        => /\ pc # "aborted"
           /\ Warnings(calls, "None") # {}

\* the commands a manual job of the type is to issue
ManualCmds(type, d) ==
    CASE type = "raise_pen"    -> << PEN_UP_CMD >>
      [] type = "lower_pen"    -> << PEN_DOWN_CMD >>
      [] type = "walk_X_motor" -> << WalkCmd(d, 0) >>
      [] type = "walk_Y_motor" -> << WalkCmd(0, d) >>
      [] OTHER                 -> << >>

CmdArgs == [k \in DOMAIN Cmds |-> Cmds[k].arg]

\* C22: a manual job never traverses the document and issues just the
\* command of its type: the pen-up, the pen-down, the query of the device,
\* one jog along X or along Y by the distance of the options, or nothing.
C22_ManualCommands ==
    options.tab = "manual"
    => /\ pc \notin {"traverse", "path"}
       /\ nodeIx = 1 /\ lus.ptFirst = None
       /\ pc = "final"
          => /\ CmdArgs = ManualCmds(options.manualType, options.WalkDistance)
             /\ (options.manualType = "version_check" /\ lus.connected = "yes")
                => IsCall(1, "get_resp")

\* the frames of a job that sends the commands cmds
Frames(cmds) == [k \in DOMAIN cmds |-> Append(cmds[k], TERMINATOR)]

\* a move to coordinates other than the return
IsMove(frame) == Len(frame) = 5 /\ frame[1] = "G01 X" /\ frame[3] = " Y"

\* C23: the job that plots the straight path from (0,0) to (100,0) on a
\* device that acknowledges every command sends one pen-down, one move to
\* coordinates, one pen-up and the return, in this order, and nothing else.
C23_StraightPath ==
    (/\ document.nodes = LineDoc /\ options.tab = "splash"
     /\ sock.attempt = "connected" /\ pc = "done")
    => /\ Len(sock.wire) = 4
       /\ sock.wire[1] = Frames(<< PEN_DOWN_CMD >>)[1]
       /\ IsMove(sock.wire[2])
       /\ sock.wire[3] = Frames(<< PEN_UP_CMD >>)[1]
       /\ sock.wire[4] = Frames(<< RETURN_CMD >>)[1]

\* what the job of the straight path sends
StraightPathSent ==
    (/\ document.nodes = LineDoc /\ options.tab = "splash"
     /\ sock.attempt = "connected" /\ pc = "done")
    => sock.wire = Frames(<< PEN_UP_CMD, PEN_UP_CMD, PEN_DOWN_CMD,
                            MoveXY(100 * Scale, H2), PEN_UP_CMD, RETURN_CMD >>)

\* C24: every point handed to the encoder is the point of the path moved by
\* the transform accumulated from the enclosing groups and the node.
C24_TransformApplied ==
    [][(AtPoint /\ pc' = "path")
        => <<Val(lus'.fX), Val(lus'.fY)>> =
               <<PointNow[1] + matNew[1], PointNow[2] + matNew[2]>>]_vars


----------------------------------------------------------------------------
(* subdivide_cubic_path *)

\* every segment of the chain is within the tolerance of its chord
FlatEnough == \A j \in 1..(Len(sd.sp) - 1) : ~Exceeds(Bez(sd.sp, j), sd.flat)

\* the points of the chain given are in the chain, in their order, the first
\* one first and the last one last
OriginalKept ==
    /\ Len(sd.kept) = Len(sd.sp0)
    /\ \A k \in DOMAIN sd.kept :
          /\ sd.kept[k] \in DOMAIN sd.sp
          /\ sd.sp[sd.kept[k]][2] = <<sd.unit * sd.sp0[k][2][1], sd.unit * sd.sp0[k][2][2]>>
          /\ k > 1 => sd.kept[k - 1] < sd.kept[k]
    /\ sd.sp0 # <<>> => sd.kept[1] = 1 /\ sd.kept[Len(sd.kept)] = Len(sd.sp)

----------------------------------------------------------------------------
(* The backends *)

\* the flags are never both set
OneBackend == ~(lus.LU /\ lus.GF)

\* between the entry of effect() and its final section no step changes a flag
BackendKept == [][pc \notin {"start", "final"} => lus'.LU = lus.LU /\ lus'.GF = lus.GF]_vars

\* a job that reached the final section has both flags cleared
ClearedAtEnd == pc = "done" => ~lus.LU /\ ~lus.GF

\* C26: the flags LU and GF are never both true, no step between the entry of
\* effect() and its final section changes either of them, and both are false
\* once the job has ended.
C26_OneBackend ==
    [][/\ ~(lus'.LU /\ lus'.GF)
       /\ pc \notin {"start", "final"} => lus'.LU = lus.LU /\ lus'.GF = lus.GF
       /\ pc' \in {"done", "aborted"} => ~lus'.LU /\ ~lus'.GF]_vars

----------------------------------------------------------------------------
(* The counters of paths *)

\* the path-like nodes of a document
PathLike(nodes) == {j \in DOMAIN nodes : nodes[j].t \in PathTags}

\* C27: the step that takes a path, rect, line, polyline, polygon, circle or
\* ellipse into plot_path adds one to path_count, the step that returns from
\* plot_path adds one to svg_last_path, and when the traversal of a document
\* without references is over path_count is the number of its path-like nodes.
C27_PathsCounted ==
    [][/\ (AtNode /\ Node.t \in PathTags /\ pc' = "path")
            => lus'.path_count = lus.path_count + 1
       /\ (pc = "path" /\ pc' = "traverse")
            => lus'.svg_last_path = lus.svg_last_path + 1
       /\ (pc' = "traverse" /\ nodeIx' > Len(document.nodes)
              /\ \A j \in DOMAIN document.nodes : document.nodes[j].t # "use")
            => lus'.path_count = Cardinality(PathLike(document.nodes))]_vars

----------------------------------------------------------------------------
(* The dimensions of the document *)

\* the root's height or width gives no length
BadDimensions == <<document.height, document.width>> \in BadDims

\* C28: when the height or the width of the document gives no length, the
\* step of effect() that calls plot_to_lus reports the invalid dimensions,
\* calls do_command for nothing and leaves the totals as they were read from
\* the document; no node is visited and no home is recorded before the job
\* ends, and nothing is sent.
C28_BadDimensionsAbort ==
    [][(Plots(options) /\ BadDimensions /\ pc' \notin {"aborted", "hung"}) =>
          /\ pc = "start" =>
                /\ pc' = "final"
                /\ Warnings(calls', "invalid dimensions") # {}
                /\ \A k \in DOMAIN calls' : calls'[k].op # "do_command"
                /\ lus'.svg_total_delta_X
                     = check_svg_for_lus_data(Self(<<>>)).svg_total_delta_X
                /\ lus'.svg_total_delta_Y
                     = check_svg_for_lus_data(Self(<<>>)).svg_total_delta_Y
          /\ nodeIx' = 1
          /\ lus'.node_count = 0
          /\ lus'.ptFirst = None
          /\ sock'.wire = <<>>]_vars

\* a plot of a document 10mm high has ended
C28_HeightInMillimetres ==
    /\ Plots(options)
    /\ document.height = <<"1", "0", "m", "m">>
    /\ pc = "done"
    /\ sock.attempt = "connected"

----------------------------------------------------------------------------
(* Requests and responses *)

Nuls(q) == Cardinality({k \in DOMAIN q : q[k] = NUL})

\* the sends and the reads of the last step before its call j
SentBefore(j) == Cardinality({k \in 1..(j - 1) : calls[k].op = "sendall"})
ReadBefore(j) == Cardinality({k \in 1..(j - 1) : calls[k].op = "get_resp"})

\* the device is connected, and to every frame of the last step it gave one
\* response, which is not empty: as many responses were read or wait to be
\* read as frames were sent
AnsweredOnce ==
    /\ lus.connected = "yes" /\ sock.attempt = "connected" /\ sock.link = "up"
    /\ pc # "hung"
    /\ \A j \in DOMAIN calls : calls[j].op = "get_resp" => calls[j].arg # <<>>
    /\ \A k \in DOMAIN sock.rx : sock.rx[k] = NUL => k > 1 /\ sock.rx[k - 1] # NUL
    /\ SentBefore(Len(calls) + 1) = ReadBefore(Len(calls) + 1) + Nuls(sock.rx)

\* every response read in the last step was the only one waiting: that of
\* the frame sent last
ReadOwn ==
    \A j \in DOMAIN calls :
        calls[j].op = "get_resp" => SentBefore(j) - ReadBefore(j) = 1

\* C29: with a connected device that has acknowledged every frame of the
\* job so far and gives one response to every frame of the step, each
\* response that do_command reads in the step is the response to the frame
\* it sent last, not one that was waiting from an earlier frame.
C29_ResponsesPaired ==
    [][(budget = MaxFaults /\ sock.rx = <<>> /\ AnsweredOnce') => ReadOwn']_vars

----------------------------------------------------------------------------
(* The pen flag and the pen frames *)

IsPenFrame(frame) == frame \in {Append(PEN_UP_CMD, TERMINATOR), Append(PEN_DOWN_CMD, TERMINATOR)}

\* the 'G01 Z...' frames sent in the job, in their order
PenFrames == SelectSeq(sock.wire, IsPenFrame)

\* C30: while the job writes to a connected device whose link is up,
\* pen_is_up is true exactly when the last 'G01 Z...' frame sent is
\* 'G01 Z1000' or no such frame has been sent.
C30_PenFlagAgrees ==
    (lus.LU /\ lus.connected = "yes" /\ sock.link = "up") =>
        (lus.pen_is_up <=>
            (PenFrames = <<>> \/ Last(PenFrames) = Append(PEN_UP_CMD, TERMINATOR)))

----------------------------------------------------------------------------
(* The totals and the position *)

\* the totals are the offset of the previous position from home, as the
\* float subtraction gives it
TotalsAreOffset ==
    fp.ptFirst # None =>
        /\ fp.svg_total_delta_X = FSub(Val(fp.fPrevX), Val(fp.ptFirst)[1])
        /\ fp.svg_total_delta_Y = FSub(Val(fp.fPrevY), Val(fp.ptFirst)[2])

\* C31: in a job that starts with totals of zero, after every point walked,
\* plotted or not, svg_total_delta_X = fPrevX - home.x and svg_total_delta_Y
\* = fPrevY - home.y, and every coordinate move of the step carries the X
\* total and minus the Y total of before the step.
C31_TotalsFollowPosition ==
    [][/\ TotalsAreOffset'
       /\ \A k \in DOMAIN fp'.out :
              fp'.out[k][1] = "G01 X" =>
                  SubSeq(fp'.out[k], 1, 4)
                     = FloatMove(fp.svg_total_delta_X, FNeg(fp.svg_total_delta_Y))]_vars

\* the moves carry the totals of before the step
MovesCarryTotals ==
    [][\A k \in DOMAIN fp'.out :
          fp'.out[k][1] = "G01 X" =>
              SubSeq(fp'.out[k], 1, 4)
                 = FloatMove(fp.svg_total_delta_X, FNeg(fp.svg_total_delta_Y))]_vars

\* the totals are the offset while every number of the walk is a multiple
\* of 2^-16, as the points (20, 1561) and (1700.25, 1000) are: no sum and no
\* difference is rounded then
WholeOffsets ==
    (\A j \in DOMAIN fp.paths : \A k \in DOMAIN fp.paths[j].pts :
         fp.paths[j].pts[k][1][2] = 0 /\ fp.paths[j].pts[k][2][2] = 0)
    /\ (fp.fX # None => Val(fp.fX)[2] = 0 /\ Val(fp.fY)[2] = 0
                        /\ Val(fp.fPrevX)[2] = 0 /\ Val(fp.fPrevY)[2] = 0
                        /\ fp.svg_total_delta_X[2] = 0 /\ fp.svg_total_delta_Y[2] = 0)
    => TotalsAreOffset

----------------------------------------------------------------------------
(* The pen while the plotter moves to a subpath *)

\* the step that leaves the first point of a subpath: every point of the
\* subpath walked before it is the first point, the point of the step is not
LeavesFirstPoint ==
    /\ AtPoint /\ pc' = "path" /\ ptIx >= 1
    /\ \A j \in 1..ptIx : Node.sps[spIx][j] = Node.sps[spIx][1]
    /\ PointNow # Node.sps[spIx][1]

\* the step sends frames to the device, and the first of them is a move to
\* coordinates: the move plot_line encodes, whose target is the position of
\* before the step
MoveSentFirst ==
    /\ lus.LU /\ lus.all_layers
    /\ Len(sock'.wire) > Len(sock.wire)
    /\ IsMove(sock'.wire[Len(sock.wire) + 1])

\* the pen of the device is up: no 'G01 Z...' frame has lowered it since the
\* last one that lifted it, or since the job began
PenFrameUp == PenFrames = <<>> \/ Last(PenFrames) = Append(PEN_UP_CMD, TERMINATOR)

\* C32: in a plot of all layers to the device, the move to the first point
\* of a subpath after the first is sent with the pen up: the last 'G01 Z...'
\* frame sent before it is 'G01 Z1000', for every subpath, also one whose
\* first two points coincide. (The subpaths are the second and later ones
\* of a path.)
C32_RepositionPenUp ==
    [][(spIx > 1 /\ LeavesFirstPoint /\ MoveSentFirst) => PenFrameUp]_vars

\* the same of the subpaths whose second point is not the first
RepositionPenUpApart ==
    [][(LeavesFirstPoint /\ ptIx = 1 /\ MoveSentFirst) => PenFrameUp]_vars

============================================================================
